---- MODULE Spec2Model ----
(***************************************************************************)
(* A model of the class-timetabler scheduling engine:                      *)
(*   - the move validator (app/api/__init__.py): check_move, move_lesson   *)
(*     and check_slot_conflicts over a materialised schedule;              *)
(*   - the solver (app/solvers/timetable_solver.py): the decision          *)
(*     variables and hard constraints HC1-HC5 posted on the CP model, the  *)
(*     soft constraints SC1-SC4 and the objective, the backend's answer    *)
(*     and the extraction of the assignments;                              *)
(*   - the feasibility analyser (app/solvers/validator.py).                *)
(* Five specifications share the variables: MoveSpec drives the move       *)
(* validator; SolveSpec drives one call on a problem, of solve_timetable   *)
(* or of validate_timetable_input; SoftSpec drives solve_timetable under   *)
(* several configs; AnalyseSpec drives validate_timetable_input on larger  *)
(* problems; ConfigSpec interleaves two concurrent solve_timetable calls.  *)
(***************************************************************************)
EXTENDS Integers, Sequences, FiniteSets, TLC

VARIABLES
    schedule,      \* the materialised schedule: a sequence of CurrentAssignment
    call,          \* the last move-validator call: its kind, request and response
    problem,       \* the TimetableInput handed to the call
    pc,            \* position of the call on the problem
    report,        \* the ValidationReport returned by the analyser
    built,         \* TRUE once constraints have been posted on the CP model
    invoked,       \* TRUE once solver.Solve(model) has been called
    status,        \* the backend's status
    output,        \* the TimetableOutput returned
    config,        \* the SolverConfig of the call on the problem
    configs,       \* the SolverConfig objects of two concurrent callers
    calls          \* the two callers' solve_timetable calls

vars == <<schedule, call, problem, pc, report, built, invoked, status, output,
          config, configs, calls>>

moveVars == <<schedule, call>>
solveVars == <<problem, pc, report, built, invoked, status, output, config>>
confVars == <<configs, calls>>

\* an optional value is a sequence of length 0 (None) or 1
None == <<>>
Some(x) == <<x>>

\* no move-validator call is outstanding
NoCall == [kind |-> "none", req |-> None, resp |-> None]

(***************************************************************************)
(* The time grid: 5 days, 6 periods each.                                  *)
(***************************************************************************)
NumDays == 5
NumPeriods == 6
Days == 0 .. (NumDays - 1)
Periods == 1 .. NumPeriods
Slots == Days \X Periods

DAYS == <<"Monday", "Tuesday", "Wednesday", "Thursday", "Friday">>
PeriodStr == <<"1", "2", "3", "4", "5", "6">>

(***************************************************************************)
(* Bounds of the move-validator inputs.                                    *)
(***************************************************************************)
MaxAssign == 3      \* longest schedule drawn initially
MaxAvail == 1       \* longest teacher_availability list

LessonIds == {"X", "Y"}
TeacherCodes == {"T1", "T2"}
SchedSlots == {<<0, 1>>, <<1, 2>>}   \* slots of the schedule, sources and targets
UnavailPool == {<<1, 2>>}            \* slots a teacher may be unavailable

TeacherName(code) == IF code = "T1" THEN "Ann" ELSE "Bob"
SubjectOf(lid) == IF lid = "X" THEN "Maths" ELSE "Art"

\* class CurrentAssignment
CurrentAssignment(lid, d, p, tc, r, g) ==
    [lesson_id |-> lid, day |-> d, period |-> p, teacher_code |-> tc,
     teacher_name |-> TeacherName(tc), room |-> r, student_group |-> g,
     subject |-> SubjectOf(lid)]

\* (teacher_code, room, student_group) of the entries of lesson X, and of
\* lesson Y: equal to X's in all three, in exactly one, or in none
ProfilesX == {<<"T1", "R1", "G1">>}
ProfilesY == {<<"T1", "R1", "G1">>, <<"T1", "R2", "G2">>, <<"T2", "R1", "G2">>,
              <<"T2", "R2", "G1">>, <<"T2", "R2", "G2">>}

AssignmentPool ==
    {CurrentAssignment("X", s[1], s[2], pr[1], pr[2], pr[3]) :
        s \in SchedSlots, pr \in ProfilesX}
    \cup {CurrentAssignment("Y", s[1], s[2], pr[1], pr[2], pr[3]) :
        s \in SchedSlots, pr \in ProfilesY}

\* the first entry is of lesson X (the other entries are free)
FirstPool == {a \in AssignmentPool : a.lesson_id = "X"}

SeqsUpTo(S, n) == UNION {[1 .. k -> S] : k \in 0 .. n}

InitSchedules ==
    {<<>>} \cup {<<a>> \o rest : a \in FirstPool,
                                 rest \in SeqsUpTo(AssignmentPool, MaxAssign - 1)}

\* class TeacherAvailability (unavailable_slots held as the set the code builds)
AvailabilityLists ==
    SeqsUpTo([teacher_code : TeacherCodes, unavailable_slots : SUBSET UnavailPool],
             MaxAvail)

(***************************************************************************)
(* check_slot_conflicts                                                    *)
(***************************************************************************)
SlotConflict(type, msg) == [conflict_type |-> type, message |-> msg]

\* teacher_unavailability_map of check_move: later list entries overwrite
\* earlier ones of the same teacher_code
RECURSIVE UnavailabilityMap(_)
UnavailabilityMap(tas) ==
    IF tas = <<>> THEN <<>>
    ELSE LET n == Len(tas)
             before == UnavailabilityMap(SubSeq(tas, 1, n - 1))
             ta == tas[n]
         IN  [c \in (DOMAIN before) \cup {ta.teacher_code} |->
                 IF c = ta.teacher_code THEN ta.unavailable_slots ELSE before[c]]

\* is the assignment the lesson being moved (skipped by the scan)?
IsSource(a, src) ==
    /\ a.day = src.day
    /\ a.period = src.period
    /\ a.lesson_id = src.lesson_id

\* a variant that reports no conflict for an assignment at the target that
\* shares neither teacher, room nor student group with the source
ConflictsOf_SharedOnly(a, src, td, tp) ==
    IF IsSource(a, src) THEN <<>>
    ELSE IF a.day # td \/ a.period # tp THEN <<>>
    ELSE IF /\ a.teacher_code # src.teacher_code
            /\ a.room # src.room
            /\ a.student_group # src.student_group
    THEN <<>>
    ELSE <<SlotConflict("occupied", <<"Slot already has ", a.subject>>)>>

\* the conflicts one scanned assignment appends
ConflictsOf(a, src, td, tp) ==
    IF IsSource(a, src) THEN <<>>
    ELSE IF a.day # td \/ a.period # tp THEN <<>>
    ELSE <<SlotConflict("occupied",
                <<"Slot already has ", a.subject, " for ", a.student_group>>)>>
         \o (IF a.teacher_code = src.teacher_code
             THEN <<SlotConflict("teacher",
                     <<src.teacher_name, " is already teaching ", a.subject,
                       " to ", a.student_group, " in this slot">>)>>
             ELSE <<>>)
         \o (IF a.room = src.room
             THEN <<SlotConflict("room",
                     <<src.room, " is already booked for ", a.subject,
                       " (", a.student_group, ")">>)>>
             ELSE <<>>)
         \o (IF a.student_group = src.student_group
             THEN <<SlotConflict("student_group",
                     <<src.student_group, " already has ", a.subject,
                       " scheduled in this slot">>)>>
             ELSE <<>>)

\* a variant whose scan ends at the first assignment that yields a conflict
RECURSIVE ScanAssignments_FirstOccupant(_, _, _, _)
ScanAssignments_FirstOccupant(all, src, td, tp) ==
    IF all = <<>> THEN <<>>
    ELSE IF ConflictsOf(Head(all), src, td, tp) # <<>>
    THEN ConflictsOf(Head(all), src, td, tp)
    ELSE ScanAssignments_FirstOccupant(Tail(all), src, td, tp)

RECURSIVE ScanAssignments(_, _, _, _)
ScanAssignments(all, src, td, tp) ==
    IF all = <<>> THEN <<>>
    ELSE ConflictsOf(Head(all), src, td, tp)
         \o ScanAssignments(Tail(all), src, td, tp)

\* the teacher_unavailable check; unavail is None (argument omitted) or
\* Some(map); an empty map is falsy and skips the check like None
UnavailableConflicts(src, td, tp, unavail) ==
    IF unavail = None \/ DOMAIN unavail[1] = {} THEN <<>>
    ELSE LET slots == IF src.teacher_code \in DOMAIN unavail[1]
                      THEN unavail[1][src.teacher_code] ELSE {}
         IN  IF <<td, tp>> \in slots
             THEN <<SlotConflict("teacher_unavailable",
                     <<src.teacher_name, " is not available on ", DAYS[td + 1],
                       " Period ", PeriodStr[tp]>>)>>
             ELSE <<>>

\* a variant that keeps the last conflict of each type
RECURSIVE Deduplicate_KeepLast(_, _)
Deduplicate_KeepLast(conflicts, seen_types) ==
    IF conflicts = <<>> THEN <<>>
    ELSE LET c == Head(conflicts)
             later == Tail(conflicts)
         IN  IF \E i \in 1 .. Len(later) : later[i].conflict_type = c.conflict_type
             THEN Deduplicate_KeepLast(later, seen_types)
             ELSE <<c>> \o Deduplicate_KeepLast(later, seen_types)

\* deduplicate by conflict_type, keeping the first of each type
RECURSIVE Deduplicate(_, _)
Deduplicate(conflicts, seen_types) ==
    IF conflicts = <<>> THEN <<>>
    ELSE LET c == Head(conflicts)
         IN  IF c.conflict_type \in seen_types
             THEN Deduplicate(Tail(conflicts), seen_types)
             ELSE <<c>> \o Deduplicate(Tail(conflicts),
                                       seen_types \cup {c.conflict_type})

\* a variant that goes on to the other checks after same_slot
check_slot_conflicts_NoShortCircuit(src, td, tp, all, unavail) ==
    Deduplicate((IF td = src.day /\ tp = src.period
                 THEN <<SlotConflict("same_slot", <<"Cannot move to the same slot">>)>>
                 ELSE <<>>)
                \o UnavailableConflicts(src, td, tp, unavail)
                \o ScanAssignments(all, src, td, tp), {})

check_slot_conflicts(src, td, tp, all, unavail) ==
    IF td = src.day /\ tp = src.period
    THEN <<SlotConflict("same_slot", <<"Cannot move to the same slot">>)>>
    ELSE Deduplicate(UnavailableConflicts(src, td, tp, unavail)
                     \o ScanAssignments(all, src, td, tp), {})

(***************************************************************************)
(* check_move and move_lesson                                              *)
(***************************************************************************)
\* a variant that matches on lesson_id alone
RECURSIVE FindSource_ByLessonId(_, _, _, _)
FindSource_ByLessonId(all, lid, sd, sp) ==
    IF all = <<>> THEN None
    ELSE IF Head(all).lesson_id = lid THEN Some(Head(all))
    ELSE FindSource_ByLessonId(Tail(all), lid, sd, sp)

\* the first assignment matching (lesson_id, source_day, source_period), or None
RECURSIVE FindSource(_, _, _, _)
FindSource(all, lid, sd, sp) ==
    IF all = <<>> THEN None
    ELSE LET a == Head(all)
         IN  IF a.lesson_id = lid /\ a.day = sd /\ a.period = sp
             THEN Some(a)
             ELSE FindSource(Tail(all), lid, sd, sp)

\* a variant that runs through the days first
GridDay_PeriodMajor(i) == (i - 1) % NumDays

\* the (day, period) of the i-th entry of the slot grid, i in 1..30
GridDay(i) == (i - 1) \div NumPeriods
GridPeriod(i) == ((i - 1) % NumPeriods) + 1
GridIndex(d, p) == d * NumPeriods + p

SlotValidation(d, p, conflicts) ==
    [day |-> d, period |-> p, valid |-> (Len(conflicts) = 0), conflicts |-> conflicts]

check_move(req) ==
    LET found == FindSource(req.current_assignments, req.lesson_id,
                            req.source_day, req.source_period)
        src == found[1]
        umap == UnavailabilityMap(req.teacher_availability)
    IN  [lesson_id |-> req.lesson_id,
         source_day |-> req.source_day,
         source_period |-> req.source_period,
         slots |->
            IF found = None
            THEN [i \in 1 .. (NumDays * NumPeriods) |->
                    [day |-> GridDay(i), period |-> GridPeriod(i), valid |-> FALSE,
                     conflicts |-> <<SlotConflict("error",
                        <<"Source lesson not found in current assignments">>)>>]]
            ELSE [i \in 1 .. (NumDays * NumPeriods) |->
                    SlotValidation(GridDay(i), GridPeriod(i),
                        check_slot_conflicts(src, GridDay(i), GridPeriod(i),
                                             req.current_assignments, Some(umap)))]]

\* a variant that leaves the assignment in the source slot
UpdatedAssignment_SourceSlot(src, td, tp) == src

\* the updated assignment of a successful move: the source's fields, at the
\* target slot
UpdatedAssignment(src, td, tp) ==
    [lesson_id |-> src.lesson_id,
     day |-> td,
     period |-> tp,
     teacher_code |-> src.teacher_code,
     teacher_name |-> src.teacher_name,
     room |-> src.room,
     student_group |-> src.student_group,
     subject |-> src.subject]

\* a variant that moves a found source without checking the target
move_lesson_Unchecked(req) ==
    LET found == FindSource(req.current_assignments, req.lesson_id,
                            req.source_day, req.source_period)
    IN  IF found = None
        THEN [success |-> FALSE,
              message |-> <<"Source lesson not found in current assignments">>,
              updated_assignment |-> None,
              conflicts |-> <<SlotConflict("error", <<"Source lesson not found">>)>>]
        ELSE [success |-> TRUE,
              message |-> <<"Successfully moved ">>,
              updated_assignment |-> Some(
                  UpdatedAssignment(found[1], req.target_day, req.target_period)),
              conflicts |-> <<>>]

move_lesson(req) ==
    LET found == FindSource(req.current_assignments, req.lesson_id,
                            req.source_day, req.source_period)
        src == found[1]
    IN  IF found = None
        THEN [success |-> FALSE,
              message |-> <<"Source lesson not found in current assignments">>,
              updated_assignment |-> None,
              conflicts |-> <<SlotConflict("error", <<"Source lesson not found">>)>>]
        ELSE LET conflicts == check_slot_conflicts(src, req.target_day,
                                  req.target_period, req.current_assignments, None)
             IN  IF conflicts # <<>>
                 THEN [success |-> FALSE,
                       message |-> <<"Cannot move lesson: ">> \o conflicts[1].message,
                       updated_assignment |-> None,
                       conflicts |-> conflicts]
                 ELSE [success |-> TRUE,
                       message |-> <<"Successfully moved ", src.student_group, " ",
                                     src.subject, " from ", DAYS[req.source_day + 1],
                                     " P", PeriodStr[req.source_period], " to ",
                                     DAYS[req.target_day + 1], " P",
                                     PeriodStr[req.target_period]>>,
                       updated_assignment |-> Some(
                           UpdatedAssignment(src, req.target_day,
                                             req.target_period)),
                       conflicts |-> <<>>]

(***************************************************************************)
(* The timetabling problem (class TimetableInput) and the bounds of the    *)
(* problems handed to solve_timetable.                                     *)
(***************************************************************************)
MaxRooms == 2         \* most rooms of a problem
MaxPeriods == 2       \* largest periods_per_week of the first lesson
DefaultMaxHours == 25
MinMaxHours == 1

RoomIdOf == <<"R1", "R2", "R3", "R4">>
UsedRoomTypes == {"standard", "science_lab"}
NoType == "none"      \* requires_room_type = None

\* the part of the week a part-time teacher works; it holds the last two
\* periods of a day and the first of the next
Window == {<<0, 5>>, <<0, 6>>, <<1, 1>>}

Room(i, t) == [id |-> RoomIdOf[i], room_type |-> t]
Subject(id, t) == [id |-> id, requires_room_type |-> t]
Teacher(id, maxh, unavail) ==
    [id |-> id, subject_ids |-> {"math"}, max_hours_per_week |-> maxh,
     unavailable |-> unavail]
Lesson(id, subj, t, g, ppw, dbl) ==
    [id |-> id, subject_id |-> subj, teacher_id |-> t, student_group_id |-> g,
     periods_per_week |-> ppw, requires_double_period |-> dbl]

RoomLists ==
    UNION {{[i \in 1 .. k |-> Room(i, ts[i])] : ts \in [1 .. k -> UsedRoomTypes]} :
              k \in 1 .. MaxRooms}

SubjectList == <<Subject("math", NoType), Subject("sci", "science_lab")>>

\* teacher T2 works in the window
TeacherT2 == Teacher("T2", DefaultMaxHours, Slots \ Window)

\* teacher T1 works part time: in the window, or in the single slot (0, 1)
PartTimeT1 ==
    {Teacher("T1", DefaultMaxHours, Slots \ Window),
     Teacher("T1", MinMaxHours, Slots \ Window),
     Teacher("T1", DefaultMaxHours, Slots \ {<<0, 1>>})}

\* teacher T1 has no unavailability
FullTimeT1 == Teacher("T1", DefaultMaxHours, {})

\* a single-period lesson L2 that shares the teacher, the group or neither
\* with L1
SecondLessons ==
    {Lesson("L2", "math", tg[1], tg[2], 1, FALSE) :
        tg \in {<<"T1", "G2">>, <<"T2", "G1">>, <<"T2", "G2">>}}

\* lesson L1 of teacher T1 for group G1 with up to n periods, alone or
\* followed by a lesson of seconds
LessonLists(n, seconds) ==
    LET firsts == {Lesson("L1", subj, "T1", "G1", ppw, dbl) :
                      subj \in {"math", "sci"}, ppw \in 1 .. n, dbl \in BOOLEAN}
    IN  {<<l>> : l \in firsts} \cup {<<l, m>> : l \in firsts, m \in seconds}

TimetableInput(rooms, teachers, lessons) ==
    [rooms |-> rooms, subjects |-> SubjectList, teachers |-> teachers,
     student_groups |-> <<"G1", "G2">>, lessons |-> lessons]

\* an identifier that no subject, teacher or student group of a problem has
UnknownId == "ghost"

\* a single-period lesson that references an identifier absent from the
\* problem: as its subject, its teacher or its student group
DanglingLessons ==
    {Lesson("L1", UnknownId, "T1", "G1", 1, FALSE),
     Lesson("L1", "math", UnknownId, "G1", 1, FALSE),
     Lesson("L1", "math", "T1", UnknownId, 1, FALSE)}

\* problems the models accept without cross-checking: one with an empty
\* rooms list, one whose only lesson references an absent identifier, one
\* whose second lesson references an absent subject
UncheckedProblems ==
    {TimetableInput(<<>>, <<FullTimeT1, TeacherT2>>, lessons) :
        lessons \in LessonLists(1, {m \in SecondLessons : m.teacher_id = "T2"})}
    \cup
    {TimetableInput(rooms, <<FullTimeT1, TeacherT2>>, <<l>>) :
        rooms \in RoomLists, l \in DanglingLessons}
    \cup
    {TimetableInput(rooms, <<FullTimeT1, TeacherT2>>,
                    <<Lesson("L1", subj, "T1", "G1", 1, FALSE),
                      Lesson("L2", UnknownId, "T2", "G2", 1, FALSE)>>) :
        rooms \in RoomLists, subj \in {"math", "sci"}}

\* problems with a third subject, art, that requires an art room: L1 is a
\* science lesson and L2 an art lesson, and no room or one room of the
\* problem is a science lab
TwoTypeProblems ==
    {[TimetableInput(rooms, <<FullTimeT1, TeacherT2>>,
                     <<Lesson("L1", "sci", "T1", "G1", 1, FALSE),
                       Lesson("L2", "art", "T2", "G2", 1, FALSE)>>)
        EXCEPT !.subjects = SubjectList \o <<Subject("art", "art_room")>>] :
        rooms \in {<<Room(1, "standard")>>,
                   <<Room(1, "standard"), Room(2, "science_lab")>>}}

\* the problems: T1 part time with lessons of up to MaxPeriods periods, or T1
\* full time teaching the single period of L1, or an unchecked problem, or
\* a problem with two required room types
Problems ==
    {TimetableInput(rooms, <<t1, TeacherT2>>, lessons) :
        rooms \in RoomLists, t1 \in PartTimeT1,
        lessons \in LessonLists(MaxPeriods, SecondLessons)}
    \cup
    {TimetableInput(rooms, <<FullTimeT1, TeacherT2>>, lessons) :
        rooms \in RoomLists,
        lessons \in LessonLists(1, {m \in SecondLessons : m.teacher_id = "T2"})}
    \cup UncheckedProblems
    \cup TwoTypeProblems

RECURSIVE SumSeq(_)
SumSeq(ns) == IF ns = <<>> THEN 0 ELSE Head(ns) + SumSeq(Tail(ns))

(***************************************************************************)
(* TimetableSolver: lookup tables built by __init__                        *)
(***************************************************************************)
\* the ids of data.subjects, the keys of the subjects lookup table
SubjectIds(data) == {data.subjects[i].id : i \in 1 .. Len(data.subjects)}

\* self._subjects[lesson.subject_id] raises KeyError in _compute_valid_rooms,
\* which __init__ calls: a lesson's subject is not a subject of the problem
ConstructorRaises(data) ==
    \E i \in 1 .. Len(data.lessons) :
        data.lessons[i].subject_id \notin SubjectIds(data)

\* 0-based position of the first occurrence of x in seq
RECURSIVE IndexOf(_, _)
IndexOf(seq, x) ==
    IF Head(seq) = x THEN 0 ELSE 1 + IndexOf(Tail(seq), x)

\* list(self._rooms.keys()): the room ids in the order of data.rooms
RoomKeys(data) == [i \in 1 .. Len(data.rooms) |-> data.rooms[i].id]

\* self._subjects[subject_id]
SubjectById(data, subject_id) ==
    data.subjects[CHOOSE i \in 1 .. Len(data.subjects) :
                      data.subjects[i].id = subject_id]

\* self._teacher_unavailable.get(teacher_id, set())
TeacherUnavailable(data, teacher_id) ==
    IF \E i \in 1 .. Len(data.teachers) : data.teachers[i].id = teacher_id
    THEN data.teachers[CHOOSE i \in 1 .. Len(data.teachers) :
                           data.teachers[i].id = teacher_id].unavailable
    ELSE {}

\* a variant that ignores the subject's required room type
ValidRooms_AnyType(data, lesson) == [i \in 1 .. Len(data.rooms) |-> data.rooms[i].id]

\* _compute_valid_rooms, for one lesson: the ids of the rooms its subject allows
ValidRooms(data, lesson) ==
    LET required_type == SubjectById(data, lesson.subject_id).requires_room_type
        Fits(r) == required_type = NoType \/ r.room_type = required_type
        fitting == SelectSeq(data.rooms, Fits)
    IN  [i \in 1 .. Len(fitting) |-> fitting[i].id]

\* the keys of self._teacher_lessons and self._group_lessons
TeacherKeys(data) == {data.lessons[i].teacher_id : i \in 1 .. Len(data.lessons)}
GroupKeys(data) == {data.lessons[i].student_group_id : i \in 1 .. Len(data.lessons)}

(***************************************************************************)
(* TimetableSolver.solve: the decision variables.  An instance is a pair   *)
(* (lesson, instance_idx); lesson_vars lists them lesson by lesson.  A     *)
(* valuation gives every instance its day, period and room_idx.            *)
(***************************************************************************)
\* a variant that creates one instance too few
InstancesOf_OneShort(li, lesson) ==
    [k \in 1 .. (lesson.periods_per_week - 1) |-> [lesson |-> li, idx |-> k - 1]]

\* range(lesson.periods_per_week) of one lesson
InstancesOf(li, lesson) ==
    [k \in 1 .. lesson.periods_per_week |-> [lesson |-> li, idx |-> k - 1]]

RECURSIVE LessonVarsFrom(_, _)
LessonVarsFrom(data, li) ==
    IF li > Len(data.lessons) THEN <<>>
    ELSE InstancesOf(li, data.lessons[li]) \o LessonVarsFrom(data, li + 1)

LessonVars(data) == LessonVarsFrom(data, 1)

\* slot_var == day * 6 + (period - 1)
SlotOf(v) == v.day * NumPeriods + (v.period - 1)

\* AddElement(room_idx, global_indices, room_global_idx)
RoomGlobal(data, lesson, v) ==
    LET valid_rooms == ValidRooms(data, lesson)
        global_indices == [i \in 1 .. Len(valid_rooms) |->
                              IndexOf(RoomKeys(data), valid_rooms[i])]
    IN  global_indices[v.room_idx + 1]

\* AddAllDifferent
AllDifferent(xs) == \A i, j \in 1 .. Len(xs) : i < j => xs[i] # xs[j]

\* the positions in lesson_vars of the instances whose lesson is one of Of
InstancesWhere(data, Of) ==
    LET insts == LessonVars(data)
        Keep(n) == insts[n].lesson \in Of
        RECURSIVE From(_)
        From(n) == IF n > Len(insts) THEN <<>>
                   ELSE (IF Keep(n) THEN <<n>> ELSE <<>>) \o From(n + 1)
    IN  From(1)

(***************************************************************************)
(* The hard constraints, as posted on the model                            *)
(***************************************************************************)
\* a variant that separates the instances of each lesson only
TeacherConflictConstraints_PerLesson(data, val) ==
    \A lesson_id \in {data.lessons[i].id : i \in 1 .. Len(data.lessons)} :
        LET Of == {i \in 1 .. Len(data.lessons) :
                       LET l == data.lessons[i] IN l.id = lesson_id}
            ns == InstancesWhere(data, Of)
            all_slots == [k \in 1 .. Len(ns) |-> SlotOf(val[ns[k]])]
        IN  Len(all_slots) > 1 => AllDifferent(all_slots)

\* HC1 _add_teacher_conflict_constraints
TeacherConflictConstraints(data, val) ==
    \A teacher_id \in TeacherKeys(data) :
        LET Of == {i \in 1 .. Len(data.lessons) :
                       LET l == data.lessons[i] IN l.teacher_id = teacher_id}
            ns == InstancesWhere(data, Of)
            all_slots == [k \in 1 .. Len(ns) |-> SlotOf(val[ns[k]])]
        IN  Len(all_slots) > 1 => AllDifferent(all_slots)

\* a variant that uses room_idx, the index into the lesson's own valid rooms
SlotRoom_LocalIndex(data, lesson, v) ==
    SlotOf(v) * Len(data.rooms) + v.room_idx

\* slot_room_var == slot_var * num_rooms + room_global_idx
SlotRoom(data, lesson, v) ==
    SlotOf(v) * Len(data.rooms) + RoomGlobal(data, lesson, v)

\* HC2 _add_room_conflict_constraints
RoomConflictConstraints(data, val) ==
    LET insts == LessonVars(data)
        all_slot_room_vars ==
            [n \in 1 .. Len(insts) |->
                SlotRoom(data, data.lessons[insts[n].lesson], val[n])]
    IN  Len(all_slot_room_vars) > 1 => AllDifferent(all_slot_room_vars)

\* a variant that separates the instances of each lesson only
StudentGroupConstraints_PerLesson(data, val) ==
    \A lesson_id \in {data.lessons[i].id : i \in 1 .. Len(data.lessons)} :
        LET Of == {i \in 1 .. Len(data.lessons) :
                       LET l == data.lessons[i] IN l.id = lesson_id}
            ns == InstancesWhere(data, Of)
            all_slots == [k \in 1 .. Len(ns) |-> SlotOf(val[ns[k]])]
        IN  Len(all_slots) > 1 => AllDifferent(all_slots)

\* HC3 _add_student_group_constraints
StudentGroupConstraints(data, val) ==
    \A group_id \in GroupKeys(data) :
        LET Of == {i \in 1 .. Len(data.lessons) :
                       LET l == data.lessons[i] IN l.student_group_id = group_id}
            ns == InstancesWhere(data, Of)
            all_slots == [k \in 1 .. Len(ns) |-> SlotOf(val[ns[k]])]
        IN  Len(all_slots) > 1 => AllDifferent(all_slots)

\* a variant whose literals are enforced in one direction only
UnavailableClause_HalfReified(day, period, unavail_day, unavail_period) ==
    \E is_unavail_day, is_unavail_period \in BOOLEAN :
        /\ is_unavail_day => day = unavail_day
        /\ is_unavail_period => period = unavail_period
        /\ (~is_unavail_day \/ ~is_unavail_period)

\* the clause posted for one unavailable slot: literals is_unavail_day and
\* is_unavail_period reify day == d and period == p, and not both may hold
UnavailableClause(day, period, unavail_day, unavail_period) ==
    \E is_unavail_day, is_unavail_period \in BOOLEAN :
        /\ is_unavail_day => day = unavail_day
        /\ ~is_unavail_day => day # unavail_day
        /\ is_unavail_period => period = unavail_period
        /\ ~is_unavail_period => period # unavail_period
        /\ (~is_unavail_day \/ ~is_unavail_period)

\* HC4 _add_availability_constraints, for one instance of a lesson
AvailabilityConstraint(data, lesson, v) ==
    LET unavailable == TeacherUnavailable(data, lesson.teacher_id)
    IN  \A u \in unavailable : UnavailableClause(v.day, v.period, u[1], u[2])

\* the pairs (i, i + 1) for i in range(0, len(instances) - 1, 2), 0-based
DoublePairs(n) == {i \in 0 .. (n - 2) : i % 2 = 0}

\* HC5 _add_double_period_constraints
DoublePeriodConstraints(data, val) ==
    \A li \in 1 .. Len(data.lessons) :
        LET lesson == data.lessons[li]
            Of == {i \in 1 .. Len(data.lessons) :
                       LET l == data.lessons[i] IN l.id = lesson.id}
            instances == InstancesWhere(data, Of)
        IN  lesson.requires_double_period =>
                \A i \in DoublePairs(Len(instances)) :
                    LET inst1 == val[instances[i + 1]]
                        inst2 == val[instances[i + 2]]
                    IN  /\ inst1.day = inst2.day
                        /\ inst2.period = inst1.period + 1
                        /\ inst1.room_idx = inst2.room_idx
                        /\ inst1.period <= 5

(***************************************************************************)
(* The soft constraints.  Every auxiliary variable is tied to the decision *)
(* variables by a full reification or an equality, so a valuation of the   *)
(* decision variables fixes its value; the model admits the valuation when *)
(* each such value lies in the domain the variable was created with.  A    *)
(* penalty operator returns the sum of the penalty variables it posts.     *)
(***************************************************************************)
BalanceMinPeriods == 5     \* a teacher with fewer periods is not balanced

\* the domains of day_count, diff, deviation and excess
DayCountDomain_Narrow == 0 .. 1
DayCountDomain == 0 .. 10
DiffDomain == (0 - 10) .. 10
DeviationDomain == 0 .. 10
ExcessDomain == 0 .. 10

\* the positions in lesson_vars of the instances of
\* self._teacher_lessons[teacher_id], lesson by lesson
TeacherInstances(data, teacher_id) ==
    InstancesWhere(data, {i \in 1 .. Len(data.lessons) :
                             data.lessons[i].teacher_id = teacher_id})

\* is lesson i the first lesson of its teacher (the place of the teacher in
\* the iteration over self._teacher_lessons)?
FirstOfTeacher(data, i) ==
    \A j \in 1 .. (i - 1) : data.lessons[j].teacher_id # data.lessons[i].teacher_id

\* a variant that takes any free period between the first and the last
\* period of the week's grid as a gap, whether or not the teacher teaches
\* before and after it
GapsOfTeacher_AnyFree(data, val, teacher_id) ==
    LET ns == TeacherInstances(data, teacher_id)
        period_used(day, p) ==
            \E k \in 1 .. Len(ns) : val[ns[k]].day = day /\ val[ns[k]].period = p
        has_any(day) == \E k \in 1 .. Len(ns) : val[ns[k]].day = day
    IN  IF Len(ns) < 2 THEN 0
        ELSE Cardinality({dp \in Days \X (2 .. 5) :
                            has_any(dp[1]) /\ ~period_used(dp[1], dp[2])})

\* SC1 _add_teacher_gap_penalties, for one teacher: the number of is_gap
\* indicators that are true
GapsOfTeacher(data, val, teacher_id) ==
    LET ns == TeacherInstances(data, teacher_id)
        period_used(day, p) ==
            \E k \in 1 .. Len(ns) : val[ns[k]].day = day /\ val[ns[k]].period = p
        has_before(day, p) == \E q \in 1 .. (p - 1) : period_used(day, q)
        has_after(day, p) == \E q \in (p + 1) .. NumPeriods : period_used(day, q)
        is_gap(day, p) ==
            ~period_used(day, p) /\ has_before(day, p) /\ has_after(day, p)
    IN  IF Len(ns) < 2 THEN 0
        ELSE Cardinality({dp \in Days \X (2 .. 5) : is_gap(dp[1], dp[2])})

\* SC1 _add_teacher_gap_penalties
TeacherGapPenalties(data, val, weight) ==
    SumSeq([i \in 1 .. Len(data.lessons) |->
              IF FirstOfTeacher(data, i)
              THEN weight * GapsOfTeacher(data, val, data.lessons[i].teacher_id)
              ELSE 0])

\* SC2 _add_room_consistency_penalties
RoomConsistencyPenalties(data, val, weight) ==
    SumSeq([i \in 1 .. Len(data.lessons) |->
              IF FirstOfTeacher(data, i)
              THEN LET ns == TeacherInstances(data, data.lessons[i].teacher_id)
                       insts == LessonVars(data)
                       all_rooms ==
                           [k \in 1 .. Len(ns) |->
                               RoomGlobal(data, data.lessons[insts[ns[k]].lesson],
                                          val[ns[k]])]
                   IN  IF Len(all_rooms) < 2 THEN 0
                       ELSE weight * Cardinality({k \in 2 .. Len(all_rooms) :
                                                    all_rooms[k] # all_rooms[1]})
              ELSE 0])

\* SC3 _add_subject_spread_penalties, for the (student_group, subject) of
\* lesson i: the number of same_day indicators that are true
SameDayPairs(data, val, i) ==
    LET Of == {j \in 1 .. Len(data.lessons) :
                  /\ data.lessons[j].student_group_id = data.lessons[i].student_group_id
                  /\ data.lessons[j].subject_id = data.lessons[i].subject_id}
        ns == InstancesWhere(data, Of)
        all_day_vars == [k \in 1 .. Len(ns) |-> val[ns[k]].day]
    IN  IF Len(all_day_vars) < 2 THEN 0
        ELSE Cardinality({ab \in (1 .. Len(ns)) \X (1 .. Len(ns)) :
                            ab[1] < ab[2] /\ all_day_vars[ab[1]] = all_day_vars[ab[2]]})

\* SC3 _add_subject_spread_penalties
SubjectSpreadPenalties(data, val, weight) ==
    SumSeq([i \in 1 .. Len(data.lessons) |->
              IF \A j \in 1 .. (i - 1) :
                    \/ data.lessons[j].student_group_id # data.lessons[i].student_group_id
                    \/ data.lessons[j].subject_id # data.lessons[i].subject_id
              THEN weight * SameDayPairs(data, val, i)
              ELSE 0])

\* SC4 _add_daily_balance_penalties: total_periods of a teacher
TotalPeriods(data, teacher_id) ==
    SumSeq([i \in 1 .. Len(data.lessons) |->
              IF data.lessons[i].teacher_id = teacher_id
              THEN data.lessons[i].periods_per_week ELSE 0])

\* SC4: day_count of a teacher on a day
DayCount(data, val, teacher_id, day) ==
    LET ns == TeacherInstances(data, teacher_id)
    IN  Cardinality({k \in 1 .. Len(ns) : val[ns[k]].day = day})

\* SC4: excess of a teacher on a day, max(|day_count - ideal| - 1, 0)
Excess(data, val, teacher_id, day) ==
    LET ideal == TotalPeriods(data, teacher_id) \div 5
        diff == DayCount(data, val, teacher_id, day) - ideal
        deviation == IF diff < 0 THEN 0 - diff ELSE diff
    IN  IF deviation - 1 > 0 THEN deviation - 1 ELSE 0

\* SC4 _add_daily_balance_penalties
DailyBalancePenalties(data, val, weight) ==
    SumSeq([i \in 1 .. Len(data.lessons) |->
              LET teacher_id == data.lessons[i].teacher_id
              IN  IF /\ FirstOfTeacher(data, i)
                     /\ TotalPeriods(data, teacher_id) >= BalanceMinPeriods
                  THEN SumSeq([d \in 1 .. NumDays |->
                                  weight * Excess(data, val, teacher_id, d - 1)])
                  ELSE 0])

\* SC4: the values of day_count, diff, deviation, excess and penalty lie in
\* the variables' domains
BalanceDomains(data, val, weight) ==
    \A i \in 1 .. Len(data.lessons), day \in Days :
        LET teacher_id == data.lessons[i].teacher_id
            ideal == TotalPeriods(data, teacher_id) \div 5
            day_count == DayCount(data, val, teacher_id, day)
            diff == day_count - ideal
            deviation == IF diff < 0 THEN 0 - diff ELSE diff
            excess == Excess(data, val, teacher_id, day)
        IN  TotalPeriods(data, teacher_id) >= BalanceMinPeriods =>
                /\ day_count \in DayCountDomain
                /\ diff \in DiffDomain
                /\ deviation \in DeviationDomain
                /\ excess \in ExcessDomain
                /\ excess * weight \in 0 .. (weight * 10)

\* solve, lines 176-198: the soft constraints posted under a config admit
\* the valuation (the gap, room and spread penalties are 0 or the weight, in
\* their domain 0 .. weight)
SoftAdmits(data, val, cfg) ==
    cfg.weight_daily_balance > 0
        => BalanceDomains(data, val, cfg.weight_daily_balance)

\* solve, lines 176-202: the objective, the sum of the penalty variables of
\* the soft constraints whose weight is positive
Objective(data, val, cfg) ==
    (IF cfg.weight_teacher_gaps > 0
     THEN TeacherGapPenalties(data, val, cfg.weight_teacher_gaps) ELSE 0)
    + (IF cfg.weight_room_consistency > 0
       THEN RoomConsistencyPenalties(data, val, cfg.weight_room_consistency) ELSE 0)
    + (IF cfg.weight_subject_spread > 0
       THEN SubjectSpreadPenalties(data, val, cfg.weight_subject_spread) ELSE 0)
    + (IF cfg.weight_daily_balance > 0
       THEN DailyBalancePenalties(data, val, cfg.weight_daily_balance) ELSE 0)

(***************************************************************************)
(* The backend solver: it answers with any valuation of the decision       *)
(* variables, within their domains, that satisfies the posted constraints. *)
(***************************************************************************)
\* the domain of one instance's variables: day 0..4, period 1..6,
\* room_idx 0..len(valid_room_ids)-1, cut by the constraints on it alone
InstanceDomain(data, lesson) ==
    {v \in [day : Days, period : Periods,
            room_idx : 0 .. (Len(ValidRooms(data, lesson)) - 1)] :
        AvailabilityConstraint(data, lesson, v)}

RECURSIVE ValuationsFrom(_, _, _)
ValuationsFrom(data, insts, n) ==
    IF n = 0 THEN {<<>>}
    ELSE {Append(val, v) :
            val \in ValuationsFrom(data, insts, n - 1),
            v \in InstanceDomain(data, data.lessons[insts[n].lesson])}

\* the valuations the posted model admits
Solutions(data) ==
    LET insts == LessonVars(data)
    IN  {val \in ValuationsFrom(data, insts, Len(insts)) :
            /\ TeacherConflictConstraints(data, val)
            /\ RoomConflictConstraints(data, val)
            /\ StudentGroupConstraints(data, val)
            /\ DoublePeriodConstraints(data, val)}

\* the valuations the model admits with the soft constraints of a config
ModelSolutions(data, cfg) ==
    {val \in Solutions(data) : SoftAdmits(data, val, cfg)}

\* the least objective over a set of valuations (0 over none)
MinObjective(data, vals, cfg) ==
    LET objs == {Objective(data, val, cfg) : val \in vals}
    IN  IF objs = {} THEN 0 ELSE CHOOSE m \in objs : \A o \in objs : m <= o

\* _extract_assignments
ExtractAssignments(data, val) ==
    LET insts == LessonVars(data)
    IN  [n \in 1 .. Len(insts) |->
            LET lesson == data.lessons[insts[n].lesson]
            IN  [lesson_id |-> lesson.id,
                 time_slot |-> [day |-> val[n].day, period |-> val[n].period],
                 room_id |-> ValidRooms(data, lesson)[val[n].room_idx + 1]]]

\* class TimetableOutput
TimetableOutput(assignments, is_feasible, message) ==
    [assignments |-> assignments, is_feasible |-> is_feasible, message |-> message]

\* a variant that takes only OPTIMAL for a solution
StatusOutput_OptimalOnly(st, extracted, objective_value) ==
    IF st = "OPTIMAL"
    THEN TimetableOutput(extracted, TRUE,
            <<"Found ", "optimal", " solution (penalty: ",
              ToString(objective_value), ")">>)
    ELSE TimetableOutput(<<>>, FALSE, <<"No solution found. Status: ", st>>)

\* solve, lines 212-228: the output for the backend's status; extracted is
\* what _extract_assignments reads from the solver and objective_value the
\* objective's value, formatted without decimals
StatusOutput(st, extracted, objective_value) ==
    IF st \in {"OPTIMAL", "FEASIBLE"}
    THEN TimetableOutput(extracted, TRUE,
            <<"Found ", IF st = "OPTIMAL" THEN "optimal" ELSE "feasible",
              " solution (penalty: ", ToString(objective_value), ")">>)
    ELSE TimetableOutput(<<>>, FALSE, <<"No solution found. Status: ", st>>)

\* the lessons with no valid room, in lesson order
LessonsWithoutRoom(data) ==
    LET Empty(l) == Len(ValidRooms(data, l)) = 0
    IN  SelectSeq(data.lessons, Empty)

(***************************************************************************)
(* class SolverConfig: the time limit (in seconds), the worker count and   *)
(* the four soft-constraint weights.                                       *)
(***************************************************************************)
DefaultMaxTime == 60
DefaultWorkers == 8
DefaultGapWeight == 10
DefaultRoomWeight == 5
DefaultSpreadWeight == 8
DefaultBalanceWeight == 3

SolverConfig(max_time_seconds, num_workers, gaps, room, spread, balance) ==
    [max_time_seconds |-> max_time_seconds, num_workers |-> num_workers,
     weight_teacher_gaps |-> gaps, weight_room_consistency |-> room,
     weight_subject_spread |-> spread, weight_daily_balance |-> balance]

\* SolverConfig(max_time_seconds=max_time_seconds)
DefaultConfig(max_time_seconds) ==
    SolverConfig(max_time_seconds, DefaultWorkers, DefaultGapWeight,
                 DefaultRoomWeight, DefaultSpreadWeight, DefaultBalanceWeight)

\* the four weights of a config
WeightsOf(cfg) ==
    <<cfg.weight_teacher_gaps, cfg.weight_room_consistency,
      cfg.weight_subject_spread, cfg.weight_daily_balance>>

\* no concurrent callers
ConfIdle ==
    /\ configs = <<>>
    /\ calls = <<>>

(***************************************************************************)
(* solve_timetable: TimetableSolver(data, config).solve()                  *)
(***************************************************************************)
MoveIdle ==
    /\ schedule = <<>>
    /\ call = NoCall

\* a call is about to be made on one of problems with one of cfgs
StartOn(problems, cfgs) ==
    /\ problem \in problems
    /\ config \in {Some(cfg) : cfg \in cfgs}
    /\ pc = "start"
    /\ built = FALSE
    /\ invoked = FALSE
    /\ status = "NONE"
    /\ output = None
    /\ report = None
    /\ MoveIdle
    /\ ConfIdle

SolveInit == StartOn(Problems, {DefaultConfig(DefaultMaxTime)})

\* TimetableSolver(data, config): the lookup of a lesson's subject raises
ConstructRaises ==
    /\ pc = "start"
    /\ ConstructorRaises(problem)
    /\ pc' = "solve_raised"
    /\ UNCHANGED <<problem, report, built, invoked, status, output, config, moveVars, confVars>>

\* solve, lines 102-117: a lesson with no valid room ends the call
NoValidRooms ==
    /\ pc = "start"
    /\ ~ConstructorRaises(problem)
    /\ LessonsWithoutRoom(problem) # <<>>
    /\ LET lesson == LessonsWithoutRoom(problem)[1]
       IN  output' = Some(TimetableOutput(<<>>, FALSE,
                        <<"No valid rooms for lesson ", lesson.id,
                          " (subject: ", lesson.subject_id, ")">>))
    /\ pc' = "done"
    /\ UNCHANGED <<problem, report, built, invoked, status, config, moveVars, confVars>>

\* solve, lines 102-202: the variables are created and the constraints posted
BuildModel ==
    /\ pc = "start"
    /\ ~ConstructorRaises(problem)
    /\ LessonsWithoutRoom(problem) = <<>>
    /\ built' = TRUE
    /\ pc' = "built"
    /\ UNCHANGED <<problem, report, invoked, status, output, config, moveVars, confVars>>

\* solve, lines 204-221: the backend finds a valuation, of the least
\* objective when it answers OPTIMAL
SolveFound ==
    /\ pc = "built"
    /\ \E vals \in {ModelSolutions(problem, config[1])} :
       \E least \in {MinObjective(problem, vals, config[1])} :
       \E val \in vals, st \in {"OPTIMAL", "FEASIBLE"} :
          \E objective_value \in {Objective(problem, val, config[1])} :
              /\ st = "OPTIMAL" => objective_value = least
              /\ status' = st
              /\ output' = Some(StatusOutput(st, ExtractAssignments(problem, val),
                                             objective_value))
    /\ invoked' = TRUE
    /\ pc' = "done"
    /\ UNCHANGED <<problem, report, built, config, moveVars, confVars>>

\* solve, lines 204-228: the backend finds none: the model has none
\* (INFEASIBLE) or the time limit ends the search (UNKNOWN)
SolveNotFound ==
    /\ pc = "built"
    /\ \E st \in {"INFEASIBLE", "UNKNOWN"} :
        /\ st = "INFEASIBLE" => ModelSolutions(problem, config[1]) = {}
        /\ status' = st
        /\ output' = Some(StatusOutput(st, <<>>, 0))
    /\ invoked' = TRUE
    /\ pc' = "done"
    /\ UNCHANGED <<problem, report, built, config, moveVars, confVars>>


(***************************************************************************)
(* validate_timetable_input, the feasibility analyser.  type_order is the  *)
(* order in which the set of room types is iterated.                       *)
(***************************************************************************)
TotalSlots == 30

ConstraintIssue(severity, category, about) ==
    [severity |-> severity, category |-> category, about |-> about]

\* sum of periods_per_week of the lessons (positions in data.lessons) in Of
PeriodsWhere(data, Of) ==
    SumSeq([i \in 1 .. Len(data.lessons) |->
              IF i \in Of THEN data.lessons[i].periods_per_week ELSE 0])

\* CHECK 1: overall room capacity
RoomCapacityIssues(data) ==
    LET AnyLesson == 1 .. Len(data.lessons)
        total_periods == PeriodsWhere(data, AnyLesson)
        total_room_slots == TotalSlots * Len(data.rooms)
    IN  IF total_periods > total_room_slots
        THEN <<ConstraintIssue("ERROR", "ROOM CAPACITY", "")>>
        ELSE IF 10 * total_periods > 9 * total_room_slots
        THEN <<ConstraintIssue("WARNING", "ROOM CAPACITY", "")>>
        ELSE <<>>

\* a variant that warns from 90% on, not above 90%
RoomTypeIssues_FromNinety(data, room_type) ==
    LET Requires ==
            {i \in 1 .. Len(data.lessons) :
                SubjectById(data, data.lessons[i].subject_id).requires_room_type
                    = room_type}
        demand == PeriodsWhere(data, Requires)
        supply == TotalSlots * Cardinality({i \in 1 .. Len(data.rooms) :
                                              data.rooms[i].room_type = room_type})
    IN  IF demand > 0 /\ (supply = 0 \/ demand > supply)
        THEN <<ConstraintIssue("ERROR", "SPECIALIZED ROOMS", room_type)>>
        ELSE IF demand > 0 /\ 10 * demand >= 9 * supply
        THEN <<ConstraintIssue("WARNING", "SPECIALIZED ROOMS", room_type)>>
        ELSE <<>>

\* CHECK 2, for one room type
RoomTypeIssues(data, room_type) ==
    LET Requires ==
            {i \in 1 .. Len(data.lessons) :
                SubjectById(data, data.lessons[i].subject_id).requires_room_type
                    = room_type}
        demand == PeriodsWhere(data, Requires)
        supply == TotalSlots * Cardinality({i \in 1 .. Len(data.rooms) :
                                              data.rooms[i].room_type = room_type})
    IN  IF demand > 0 /\ supply = 0
        THEN <<ConstraintIssue("ERROR", "SPECIALIZED ROOMS", room_type)>>
        ELSE IF demand > 0 /\ demand > supply
        THEN <<ConstraintIssue("ERROR", "SPECIALIZED ROOMS", room_type)>>
        ELSE IF demand > 0 /\ 10 * demand > 9 * supply
        THEN <<ConstraintIssue("WARNING", "SPECIALIZED ROOMS", room_type)>>
        ELSE <<>>

\* the room types CHECK 2 iterates over: those demanded and those supplied
CheckedRoomTypes(data) ==
    ({SubjectById(data, data.lessons[i].subject_id).requires_room_type :
        i \in 1 .. Len(data.lessons)} \ {NoType})
    \cup {data.rooms[i].room_type : i \in 1 .. Len(data.rooms)}

\* the orders a set may be iterated in
Orders(S) == {o \in [1 .. Cardinality(S) -> S] :
                 \A i, j \in DOMAIN o : i # j => o[i] # o[j]}

RECURSIVE Flatten(_)
Flatten(seqs) == IF seqs = <<>> THEN <<>> ELSE Head(seqs) \o Flatten(Tail(seqs))

\* CHECK 2: specialized room capacity
SpecializedRoomIssues(data, type_order) ==
    Flatten([k \in 1 .. Len(type_order) |-> RoomTypeIssues(data, type_order[k])])

\* a variant without the check against max_hours_per_week
TeacherIssues_NoOverload(data, teacher) ==
    LET Of == {i \in 1 .. Len(data.lessons) :
                       LET l == data.lessons[i] IN l.teacher_id = teacher.id}
        workload == PeriodsWhere(data, Of)
        available_slots == TotalSlots - Cardinality(teacher.unavailable)
    IN  IF workload > available_slots
        THEN <<ConstraintIssue("ERROR", "TEACHER AVAILABILITY", teacher.id)>>
        ELSE IF available_slots > 0 /\ 10 * workload > 9 * available_slots
        THEN <<ConstraintIssue("WARNING", "TEACHER AVAILABILITY", teacher.id)>>
        ELSE <<>>

\* CHECK 3, for one teacher
TeacherIssues(data, teacher) ==
    LET Of == {i \in 1 .. Len(data.lessons) :
                       LET l == data.lessons[i] IN l.teacher_id = teacher.id}
        workload == PeriodsWhere(data, Of)
        available_slots == TotalSlots - Cardinality(teacher.unavailable)
    IN  (IF workload > teacher.max_hours_per_week
         THEN <<ConstraintIssue("ERROR", "TEACHER OVERLOAD", teacher.id)>>
         ELSE <<>>)
        \o (IF workload > available_slots
            THEN <<ConstraintIssue("ERROR", "TEACHER AVAILABILITY", teacher.id)>>
            ELSE IF available_slots > 0 /\ 10 * workload > 9 * available_slots
            THEN <<ConstraintIssue("WARNING", "TEACHER AVAILABILITY", teacher.id)>>
            ELSE <<>>)

\* CHECK 4, for one student group
StudentGroupIssues(data, sg) ==
    LET Of == {i \in 1 .. Len(data.lessons) :
                       LET l == data.lessons[i] IN l.student_group_id = sg}
        periods == PeriodsWhere(data, Of)
    IN  IF periods > TotalSlots
        THEN <<ConstraintIssue("ERROR", "STUDENT GROUP OVERLOAD", sg)>>
        ELSE IF 10 * periods > 9 * TotalSlots
        THEN <<ConstraintIssue("WARNING", "STUDENT GROUP", sg)>>
        ELSE <<>>

\* CHECK 5: double period feasibility
DoublePeriodIssues(data) ==
    IF \E i \in 1 .. Len(data.lessons) : data.lessons[i].requires_double_period
    THEN <<ConstraintIssue("INFO", "DOUBLE PERIODS", "")>>
    ELSE <<>>

\* CHECK 6, for one lesson
MismatchIssues(data, lesson) ==
    IF \E i \in 1 .. Len(data.teachers) :
          /\ data.teachers[i].id = lesson.teacher_id
          /\ lesson.subject_id \notin data.teachers[i].subject_ids
    THEN <<ConstraintIssue("WARNING", "TEACHER-SUBJECT MISMATCH", lesson.id)>>
    ELSE <<>>

validate_timetable_input(data, type_order) ==
    LET issues ==
            RoomCapacityIssues(data)
            \o SpecializedRoomIssues(data, type_order)
            \o Flatten([i \in 1 .. Len(data.teachers) |->
                          TeacherIssues(data, data.teachers[i])])
            \o Flatten([i \in 1 .. Len(data.student_groups) |->
                          StudentGroupIssues(data, data.student_groups[i])])
            \o DoublePeriodIssues(data)
            \o Flatten([i \in 1 .. Len(data.lessons) |->
                          MismatchIssues(data, data.lessons[i])])
        has_errors == \E i \in 1 .. Len(issues) : issues[i].severity = "ERROR"
    IN  [is_feasible |-> ~has_errors, issues |-> issues]

\* the ERROR issues of a report, in order
Errors(rep) ==
    LET IsError(i) == i.severity = "ERROR"
    IN  SelectSeq(rep.issues, IsError)

\* the analyser raises: total_periods / total_room_slots divides by zero
\* when the problem has no room, and subjects[lesson.subject_id] raises
\* KeyError when a lesson's subject is not a subject of the problem
AnalyserRaises(data) ==
    \/ TotalSlots * Len(data.rooms) = 0
    \/ \E i \in 1 .. Len(data.lessons) :
          data.lessons[i].subject_id \notin SubjectIds(data)

\* a call of validate_timetable_input(problem) returns its report
Analyse ==
    /\ pc = "start"
    /\ ~AnalyserRaises(problem)
    /\ \E type_order \in Orders(CheckedRoomTypes(problem)) :
          report' = Some(validate_timetable_input(problem, type_order))
    /\ pc' = "analysed"
    /\ UNCHANGED <<problem, built, invoked, status, output, config, moveVars, confVars>>

\* a call of validate_timetable_input(problem) raises
AnalyseRaises ==
    /\ pc = "start"
    /\ AnalyserRaises(problem)
    /\ pc' = "analyse_raised"
    /\ UNCHANGED <<problem, report, built, invoked, status, output, config, moveVars, confVars>>

\* one call on the problem: solve_timetable or validate_timetable_input
SolveNext ==
    \/ ConstructRaises
    \/ NoValidRooms
    \/ BuildModel
    \/ SolveFound
    \/ SolveNotFound
    \/ Analyse
    \/ AnalyseRaises

SolveSpec == SolveInit /\ [][SolveNext]_vars

(***************************************************************************)
(* solve_timetable under several configs on problems that every soft       *)
(* constraint applies to: teacher T1 works in a window of six slots, four  *)
(* of them on Monday, and teaches all lessons in standard rooms.           *)
(***************************************************************************)
MaxSoftPeriods == 5   \* largest periods_per_week of a lesson of these problems

SoftWindow == {<<0, 1>>, <<0, 2>>, <<0, 3>>, <<0, 4>>, <<1, 1>>, <<2, 1>>}

SoftTeachers == <<Teacher("T1", DefaultMaxHours, Slots \ SoftWindow)>>

\* one lesson of 1 to MaxSoftPeriods periods in one room; or a lesson of two
\* periods with two rooms to choose from; or two single-period lessons of
\* T1, for the same student group or for two
SoftProblems ==
    {TimetableInput(<<Room(1, "standard")>>, SoftTeachers,
                    <<Lesson("L1", "math", "T1", "G1", ppw, dbl)>>) :
        ppw \in 1 .. MaxSoftPeriods, dbl \in BOOLEAN}
    \cup
    {TimetableInput(<<Room(1, "standard"), Room(2, "standard")>>, SoftTeachers,
                    <<Lesson("L1", "math", "T1", "G1", 2, dbl)>>) :
        dbl \in BOOLEAN}
    \cup
    {TimetableInput(<<Room(1, "standard")>>, SoftTeachers,
                    <<Lesson("L1", "math", "T1", "G1", 1, FALSE),
                      Lesson("L2", "math", "T1", g, 1, FALSE)>>) :
        g \in {"G1", "G2"}}

\* configs with a single positive weight, with the default weights and
\* with no positive weight
SoftConfigs ==
    {SolverConfig(DefaultMaxTime, DefaultWorkers, w[1], w[2], w[3], w[4]) :
        w \in {<<2, 0, 0, 0>>, <<0, DefaultRoomWeight, 0, 0>>,
               <<0, 0, DefaultSpreadWeight, 0>>, <<0, 0, 0, DefaultBalanceWeight>>,
               <<DefaultGapWeight, DefaultRoomWeight, DefaultSpreadWeight,
                 DefaultBalanceWeight>>,
               <<0, 0, 0, 0>>}}

SoftInit == StartOn(SoftProblems, SoftConfigs)

\* every lesson of these problems has a subject and a valid room
SoftNext == BuildModel \/ SolveFound \/ SolveNotFound

SoftSpec == SoftInit /\ [][SoftNext]_vars

(***************************************************************************)
(* validate_timetable_input on problems whose lessons fill a room type or  *)
(* a teacher's week.  Every lesson is taught by T1 to G1 and has 1, 9 or   *)
(* 10 periods; the lessons are science lessons, but for the first, which   *)
(* may be a mathematics lesson.  The rooms are a standard room and up to   *)
(* two science labs.  T1 has 30, 28 or 0 available slots.                  *)
(***************************************************************************)
MaxLessons == 4       \* most lessons of an analysed problem
MaxHours == 40        \* largest max_hours_per_week
LessonPeriods == {1, 9, 10}
LessonIdOf == <<"L1", "L2", "L3", "L4", "L5", "L6">>

AnalysedLessons ==
    UNION {{[k \in 1 .. n |->
                Lesson(LessonIdOf[k], IF k = 1 THEN first ELSE "sci",
                       "T1", "G1", ppw[k], FALSE)] :
              ppw \in [1 .. n -> LessonPeriods], first \in {"math", "sci"}} :
            n \in 1 .. MaxLessons}

AnalysedRooms ==
    {<<Room(1, "standard")>>,
     <<Room(1, "standard"), Room(2, "science_lab")>>,
     <<Room(1, "standard"), Room(2, "science_lab"), Room(3, "science_lab")>>}

AnalysedTeachers ==
    {Teacher("T1", maxh, unavail) :
        maxh \in {DefaultMaxHours, MaxHours},
        unavail \in {{}, {<<0, 1>>, <<0, 2>>}, Slots}}

AnalysedProblems ==
    {TimetableInput(rooms, <<t1, TeacherT2>>, lessons) :
        rooms \in AnalysedRooms, t1 \in AnalysedTeachers,
        lessons \in AnalysedLessons}

AnalyseInit ==
    StartOn(AnalysedProblems \cup UncheckedProblems, {DefaultConfig(DefaultMaxTime)})

AnalyseNext == Analyse \/ AnalyseRaises

AnalyseSpec == AnalyseInit /\ [][AnalyseNext]_vars

(***************************************************************************)
(* The move-validator calls.  Every request carries the caller's current   *)
(* schedule; a check-move request also carries an availability list.  The  *)
(* caller issues one request at a time and consumes the response (call     *)
(* holds the outstanding one) before the next.                             *)
(***************************************************************************)
MoveCheckRequest(lid, sd, sp, tas) ==
    [lesson_id |-> lid, source_day |-> sd, source_period |-> sp,
     current_assignments |-> schedule, teacher_availability |-> tas]

MoveLessonRequest(lid, sd, sp, td, tp) ==
    [lesson_id |-> lid, source_day |-> sd, source_period |-> sp,
     target_day |-> td, target_period |-> tp,
     current_assignments |-> schedule]

\* the frozen state of the solver half under MoveSpec
SolveIdle ==
    /\ problem = None
    /\ pc = "idle"
    /\ built = FALSE
    /\ invoked = FALSE
    /\ status = "NONE"
    /\ output = None
    /\ report = None
    /\ config = None

MoveInit ==
    /\ schedule \in InitSchedules
    /\ call = NoCall
    /\ SolveIdle
    /\ ConfIdle

\* POST /check-move
CheckMove ==
    \E lid \in LessonIds, s \in SchedSlots, tas \in AvailabilityLists :
        LET req == MoveCheckRequest(lid, s[1], s[2], tas)
        IN  /\ call.kind = "none"
            /\ call' = [kind |-> "check", req |-> Some(req),
                        resp |-> Some(check_move(req))]
            /\ UNCHANGED <<schedule, solveVars, confVars>>

\* POST /move-lesson
MoveLesson ==
    \E lid \in LessonIds, s \in SchedSlots, t \in SchedSlots :
        LET req == MoveLessonRequest(lid, s[1], s[2], t[1], t[2])
        IN  /\ call.kind = "none"
            /\ call' = [kind |-> "move", req |-> Some(req),
                        resp |-> Some(move_lesson(req))]
            /\ UNCHANGED <<schedule, solveVars, confVars>>

\* the schedule with its first entry equal to old replaced by new
RECURSIVE ReplaceFirst(_, _, _)
ReplaceFirst(all, old, new) ==
    IF all = <<>> THEN <<>>
    ELSE IF Head(all) = old THEN <<new>> \o Tail(all)
    ELSE <<Head(all)>> \o ReplaceFirst(Tail(all), old, new)

\* the caller of a successful move-lesson replaces the source assignment by
\* updated_assignment; after a failed call it changes nothing
ApplyMove ==
    /\ call.kind = "move"
    /\ call.resp[1].success
    /\ LET req == call.req[1]
           src == FindSource(req.current_assignments, req.lesson_id,
                             req.source_day, req.source_period)[1]
       IN  schedule' = ReplaceFirst(schedule, src, call.resp[1].updated_assignment[1])
    /\ call' = NoCall
    /\ UNCHANGED <<solveVars, confVars>>

\* the caller drops the response of a check, or of a move it does not apply
Dismiss ==
    /\ call.kind # "none"
    /\ call' = NoCall
    /\ UNCHANGED <<schedule, solveVars, confVars>>

MoveNext == CheckMove \/ MoveLesson \/ ApplyMove \/ Dismiss

MoveSpec == MoveInit /\ [][MoveNext]_vars

(***************************************************************************)
(* Two callers run solve_timetable concurrently, each on its own thread.   *)
(* A caller passes max_time_seconds (the default when omitted) and either  *)
(* no config or a SolverConfig object it holds; both callers may hold the  *)
(* same object.  configs is the heap of SolverConfig objects; a call's     *)
(* steps are the statements of solve_timetable and of solve that touch its *)
(* config, and the threads interleave between them.                        *)
(***************************************************************************)
Callers == {1, 2}

\* the objects the callers hold, and the one each call creates at line 569
CallerConfigs == {"A", "B"}
FreshConfig == <<"N1", "N2">>
ConfigObjects == CallerConfigs \cup {FreshConfig[c] : c \in Callers}

\* the max_time_seconds arguments: a value of the caller, or the default
TimeArgs == {30, DefaultMaxTime}

\* the heap before the calls: A limits teacher gaps only with 4 workers, B
\* keeps the defaults; both carry a time limit of their own
InitialConfigs ==
    [o \in ConfigObjects |->
        IF o = "A" THEN Some(SolverConfig(10, 4, 1, 0, 0, 0))
        ELSE IF o = "B" THEN Some(DefaultConfig(20))
        ELSE None]

\* a variant that leaves the config's time limit as it is
EnteredConfig_Keep(cfg, max_time_seconds) == cfg

\* solve_timetable, line 571: config.max_time_seconds = max_time_seconds
EnteredConfig(cfg, max_time_seconds) ==
    [cfg EXCEPT !.max_time_seconds = max_time_seconds]

ConfInit ==
    /\ configs = InitialConfigs
    /\ calls \in [Callers ->
                    [pc : {"called"}, max_time_seconds : TimeArgs,
                     config : {None} \cup {Some(o) : o \in CallerConfigs},
                     self_config : {None}, weights : {None},
                     limit : {None}, workers : {None}]]
    /\ MoveIdle
    /\ SolveIdle

\* solve_timetable, lines 568-571: a config is created, or the caller's
\* object is overwritten
CallEnter(c) ==
    /\ calls[c].pc = "called"
    /\ IF calls[c].config = None
       THEN /\ configs' = [configs EXCEPT ![FreshConfig[c]] =
                              Some(DefaultConfig(calls[c].max_time_seconds))]
            /\ calls' = [calls EXCEPT ![c].config = Some(FreshConfig[c]),
                                      ![c].pc = "entered"]
       ELSE /\ configs' = [configs EXCEPT ![calls[c].config[1]] =
                              Some(EnteredConfig(@[1], calls[c].max_time_seconds))]
            /\ calls' = [calls EXCEPT ![c].pc = "entered"]
    /\ UNCHANGED <<moveVars, solveVars>>

\* solve_timetable, line 573, and __init__, line 47: the solver keeps a
\* reference to the config (a SolverConfig object is never falsy)
CallConstruct(c) ==
    /\ calls[c].pc = "entered"
    /\ calls' = [calls EXCEPT ![c].self_config = calls[c].config,
                              ![c].pc = "constructed"]
    /\ UNCHANGED <<configs, moveVars, solveVars>>

\* solve, lines 176-202: the call's own model gets the soft constraints of
\* the weights read from self.config
CallPostSoft(c) ==
    /\ calls[c].pc = "constructed"
    /\ calls' = [calls EXCEPT
                    ![c].weights = Some(WeightsOf(configs[calls[c].self_config[1]][1])),
                    ![c].pc = "modelled"]
    /\ UNCHANGED <<configs, moveVars, solveVars>>

\* solve, lines 205-207: the solver's parameters are read from self.config
CallSetParameters(c) ==
    /\ calls[c].pc = "modelled"
    /\ LET cfg == configs[calls[c].self_config[1]][1]
       IN  calls' = [calls EXCEPT ![c].limit = Some(cfg.max_time_seconds),
                                  ![c].workers = Some(cfg.num_workers),
                                  ![c].pc = "configured"]
    /\ UNCHANGED <<configs, moveVars, solveVars>>

\* solve, lines 209-228, and solve_timetable, line 574: the search runs
\* under the parameters set and the call returns
CallSolve(c) ==
    /\ calls[c].pc = "configured"
    /\ calls' = [calls EXCEPT ![c].pc = "returned"]
    /\ UNCHANGED <<configs, moveVars, solveVars>>

ConfNext ==
    \E c \in Callers :
        \/ CallEnter(c)
        \/ CallConstruct(c)
        \/ CallPostSoft(c)
        \/ CallSetParameters(c)
        \/ CallSolve(c)

ConfigSpec == ConfInit /\ [][ConfNext]_vars

(***************************************************************************)
(* Properties                                                              *)
(***************************************************************************)
\* the check_move response to the request of a move_lesson call, had it been
\* sent with the availability list tas
CheckOfMove(req, tas) ==
    check_move([lesson_id |-> req.lesson_id,
                source_day |-> req.source_day,
                source_period |-> req.source_period,
                current_assignments |-> req.current_assignments,
                teacher_availability |-> tas])

\* C1: move_lesson(source, target) succeeds if and only if the entry of the
\* target slot in the check_move response for the same lesson, source and
\* schedule is valid, whatever availability list check_move is given.
C1_CommitEquivalence ==
    call.kind = "move" =>
        \A tas \in AvailabilityLists :
            LET req == call.req[1]
                entry == CheckOfMove(req, tas).slots[
                             GridIndex(req.target_day, req.target_period)]
            IN  call.resp[1].success <=> entry.valid

\* solve has returned a Solution with is_feasible = true
Feasible == pc = "done" /\ output # None /\ output[1].is_feasible

Assignments == output[1].assignments

LessonById(data, id) ==
    data.lessons[CHOOSE i \in 1 .. Len(data.lessons) : data.lessons[i].id = id]

RoomById(data, id) ==
    data.rooms[CHOOSE i \in 1 .. Len(data.rooms) : data.rooms[i].id = id]

\* C2: in a feasible Solution no two assignments share (room_id, day, period).
C2_NoRoomOverlap ==
    Feasible =>
        \A i, j \in 1 .. Len(Assignments) :
            i < j => ~(/\ Assignments[i].room_id = Assignments[j].room_id
                       /\ Assignments[i].time_slot = Assignments[j].time_slot)

\* two lessons are taught in the same slot, in different rooms
C2_Witness ==
    /\ Feasible
    /\ \E i, j \in 1 .. Len(Assignments) :
        /\ Assignments[i].lesson_id # Assignments[j].lesson_id
        /\ Assignments[i].time_slot = Assignments[j].time_slot
        /\ Assignments[i].room_id # Assignments[j].room_id

\* C3: in a feasible Solution no two assignments whose lessons have the same
\* teacher_id share (day, period), be they of one lesson or of two.
C3_NoTeacherOverlap ==
    Feasible =>
        \A i, j \in 1 .. Len(Assignments) :
            (/\ i < j
             /\ LessonById(problem, Assignments[i].lesson_id).teacher_id
                  = LessonById(problem, Assignments[j].lesson_id).teacher_id)
                => Assignments[i].time_slot # Assignments[j].time_slot

\* a teacher has two instances of one lesson and one of another, for another
\* student group
C3_Witness ==
    /\ Feasible
    /\ \E i, j, k \in 1 .. Len(Assignments) :
        LET li == LessonById(problem, Assignments[i].lesson_id)
            lj == LessonById(problem, Assignments[j].lesson_id)
            lk == LessonById(problem, Assignments[k].lesson_id)
        IN  /\ i < j /\ li.id = lj.id
            /\ lk.id # li.id /\ lk.teacher_id = li.teacher_id
            /\ lk.student_group_id # li.student_group_id

\* C4: in a feasible Solution no two assignments whose lessons have the same
\* student_group_id share (day, period).
C4_NoGroupOverlap ==
    Feasible =>
        \A i, j \in 1 .. Len(Assignments) :
            (/\ i < j
             /\ LessonById(problem, Assignments[i].lesson_id).student_group_id
                  = LessonById(problem, Assignments[j].lesson_id).student_group_id)
                => Assignments[i].time_slot # Assignments[j].time_slot

\* a student group has lessons of two teachers, in two rooms
C4_Witness ==
    /\ Feasible
    /\ \E i, j \in 1 .. Len(Assignments) :
        LET li == LessonById(problem, Assignments[i].lesson_id)
            lj == LessonById(problem, Assignments[j].lesson_id)
        IN  /\ li.id # lj.id
            /\ li.student_group_id = lj.student_group_id
            /\ li.teacher_id # lj.teacher_id
            /\ Assignments[i].room_id # Assignments[j].room_id

\* C5: the availability constraints posted for an instance exclude exactly
\* the unavailable slots of its lesson's teacher, and no assignment of a
\* feasible Solution is at an unavailable slot of its lesson's teacher.
C5_TeacherAvailability ==
    /\ pc = "built" =>
        \A li \in 1 .. Len(problem.lessons), d \in Days, p \in Periods :
            LET lesson == problem.lessons[li]
            IN  AvailabilityConstraint(problem, lesson,
                                       [day |-> d, period |-> p, room_idx |-> 0])
                <=> <<d, p>> \notin TeacherUnavailable(problem, lesson.teacher_id)
    /\ Feasible =>
        \A i \in 1 .. Len(Assignments) :
            LET a == Assignments[i]
                lesson == LessonById(problem, a.lesson_id)
            IN  <<a.time_slot.day, a.time_slot.period>>
                    \notin TeacherUnavailable(problem, lesson.teacher_id)

\* the teacher is available in the slot (0, 1) alone and the lesson is there
C5_Witness ==
    /\ Feasible
    /\ \E i \in 1 .. Len(Assignments) :
        LET a == Assignments[i]
            lesson == LessonById(problem, a.lesson_id)
        IN  /\ TeacherUnavailable(problem, lesson.teacher_id) = Slots \ {<<0, 1>>}
            /\ a.time_slot = [day |-> 0, period |-> 1]

\* the assignments of one lesson, in order
AssignmentsOf(lesson_id) ==
    LET Of(a) == a.lesson_id = lesson_id
    IN  SelectSeq(Assignments, Of)

\* a and b are the two halves of a double period
IsDoublePair(a, b) ==
    /\ a.time_slot.day = b.time_slot.day
    /\ b.time_slot.period = a.time_slot.period + 1
    /\ a.time_slot.period <= 5
    /\ a.room_id = b.room_id

\* as can be partitioned into double periods
Pairable(as) ==
    /\ Len(as) % 2 = 0
    /\ \E f \in Permutations(1 .. Len(as)) :
        \A k \in 1 .. (Len(as) \div 2) : IsDoublePair(as[f[2 * k - 1]], as[f[2 * k]])

\* C6: in a feasible Solution the assignments of every lesson with
\* requires_double_period can be partitioned into pairs on the same day, in
\* periods p and p+1 with p <= 5, in the same room.
C6_DoublePeriodsPaired ==
    Feasible =>
        \A li \in 1 .. Len(problem.lessons) :
            problem.lessons[li].requires_double_period
                => Pairable(AssignmentsOf(problem.lessons[li].id))

\* C7: in a feasible Solution the room of every assignment whose lesson's
\* subject requires a room type has that type.
C7_RoomTypeMatches ==
    Feasible =>
        \A i \in 1 .. Len(Assignments) :
            LET a == Assignments[i]
                required == SubjectById(problem,
                    LessonById(problem, a.lesson_id).subject_id).requires_room_type
            IN  required # NoType => RoomById(problem, a.room_id).room_type = required

\* a lesson that requires a room type is placed although a room of another
\* type exists
C7_Witness ==
    /\ Feasible
    /\ \E i \in 1 .. Len(Assignments), r \in 1 .. Len(problem.rooms) :
        LET required == SubjectById(problem,
                LessonById(problem, Assignments[i].lesson_id).subject_id
            ).requires_room_type
        IN  /\ required # NoType
            /\ problem.rooms[r].room_type # required

\* C8: in a feasible Solution every lesson L of the problem has exactly
\* L.periods_per_week assignments.
C8_PeriodsPerWeek ==
    Feasible =>
        \A li \in 1 .. Len(problem.lessons) :
            Len(AssignmentsOf(problem.lessons[li].id))
                = problem.lessons[li].periods_per_week

\* two lessons, one of them with two periods, are placed
C8_Witness ==
    /\ Feasible
    /\ Len(problem.lessons) = 2
    /\ \E li \in 1 .. Len(problem.lessons) :
        /\ problem.lessons[li].periods_per_week = 2
        /\ Len(AssignmentsOf(problem.lessons[li].id)) = 2

\* C9: when the analyser reports an ERROR, solve returns is_feasible = false
\* with a message naming the first ERROR's category, the model is not built
\* and the backend solver is not invoked.
C9_AnalyserRunsFirst ==
    (pc = "done" /\ ~AnalyserRaises(problem)) =>
        \A type_order \in Orders(CheckedRoomTypes(problem)) :
            LET errors == Errors(validate_timetable_input(problem, type_order))
            IN  errors # <<>> =>
                    /\ ~output[1].is_feasible
                    /\ \E k \in 1 .. Len(output[1].message) :
                          output[1].message[k] = errors[1].category
                    /\ ~built
                    /\ ~invoked

\* C10: when the analyser reports an ERROR, no valuation of the instances
\* satisfies the hard constraints HC1-HC5 the model builder posts.
C10_ErrorsAreSound ==
    (pc = "done" /\ ~AnalyserRaises(problem)) =>
        \A type_order \in Orders(CheckedRoomTypes(problem)) :
            Errors(validate_timetable_input(problem, type_order)) # <<>>
                => Solutions(problem) = {}

\* C11: no call on a problem the models accept raises: solve_timetable and
\* validate_timetable_input end with a TimetableOutput or a ValidationReport,
\* also for a problem with no room and for one whose lesson references an
\* identifier absent from the problem.
C11_NeverRaises ==
    /\ pc \notin {"solve_raised", "analyse_raised"}
    /\ pc = "done" => output # None
    /\ pc = "analysed" => report # None

\* the structural invariants of a problem fail: a double-period lesson has an
\* odd periods_per_week, or a lesson references a subject, teacher or student
\* group that is not in the problem
StructurallyInvalid(data) ==
    \E i \in 1 .. Len(data.lessons) :
        LET l == data.lessons[i]
        IN  \/ l.requires_double_period /\ l.periods_per_week % 2 = 1
            \/ l.subject_id \notin SubjectIds(data)
            \/ l.teacher_id \notin {data.teachers[t].id : t \in 1 .. Len(data.teachers)}
            \/ l.student_group_id \notin
                  {data.student_groups[g] : g \in 1 .. Len(data.student_groups)}

\* C12: a problem that violates a structural invariant is rejected when it
\* is constructed: no model is built from it and the backend solver is never
\* invoked on it.
C12_InvalidProblemRejected ==
    StructurallyInvalid(problem) => (~built /\ ~invoked)

\* the conflict types of a conflict list, as a set and in order
Types(conflicts) == {conflicts[i].conflict_type : i \in 1 .. Len(conflicts)}
TypeSeq(conflicts) == [i \in 1 .. Len(conflicts) |-> conflicts[i].conflict_type]

\* the source assignment of the outstanding call's request, or None
SourceOfCall ==
    FindSource(call.req[1].current_assignments, call.req[1].lesson_id,
               call.req[1].source_day, call.req[1].source_period)

\* the entry of the request's source slot in a check_move response
SourceEntry ==
    call.resp[1].slots[GridIndex(call.req[1].source_day, call.req[1].source_period)]

\* C13 as stated: in every check_move response the entry of the request's
\* (source_day, source_period) is invalid and its only conflict is same_slot.
C13_SourceSlotAlways ==
    call.kind = "check" =>
        /\ ~SourceEntry.valid
        /\ TypeSeq(SourceEntry.conflicts) = <<"same_slot">>

\* C13, amended: in every check_move response for a request whose source
\* assignment is found, the entry of the request's (source_day,
\* source_period) is invalid and its only conflict is same_slot.
C13_SourceSlotSameSlot ==
    (call.kind = "check" /\ SourceOfCall # None) =>
        /\ ~SourceEntry.valid
        /\ TypeSeq(SourceEntry.conflicts) = <<"same_slot">>

\* a check whose source is found, while another lesson is in the source slot
\* and the source's teacher is unavailable there
C13_Witness ==
    /\ call.kind = "check"
    /\ SourceOfCall # None
    /\ LET req == call.req[1]
           src == SourceOfCall[1]
       IN  /\ \E k \in 1 .. Len(req.current_assignments) :
                 LET a == req.current_assignments[k]
                 IN  /\ a.lesson_id # src.lesson_id
                     /\ a.day = src.day /\ a.period = src.period
           /\ \E k \in 1 .. Len(req.teacher_availability) :
                 /\ req.teacher_availability[k].teacher_code = src.teacher_code
                 /\ <<src.day, src.period>>
                       \in req.teacher_availability[k].unavailable_slots

\* the positions in all of the assignments, other than the source, that are
\* at (td, tp)
OccupantsAt(all, src, td, tp) ==
    {k \in 1 .. Len(all) :
        /\ ~IsSource(all[k], src)
        /\ all[k].day = td
        /\ all[k].period = tp}

\* the conflicts report the occupants of (td, tp): occupied, and teacher,
\* room and student_group exactly when an occupant shares it with the source
OccupantsReported(conflicts, all, src, td, tp) ==
    LET occupants == OccupantsAt(all, src, td, tp)
    IN  occupants # {} =>
            /\ "occupied" \in Types(conflicts)
            /\ "teacher" \in Types(conflicts)
                 <=> \E k \in occupants : all[k].teacher_code = src.teacher_code
            /\ "room" \in Types(conflicts)
                 <=> \E k \in occupants : all[k].room = src.room
            /\ "student_group" \in Types(conflicts)
                 <=> \E k \in occupants : all[k].student_group = src.student_group

\* C14: in check_move and in move_lesson, for a target slot other than the
\* source slot that holds an assignment other than the source, the conflict
\* list contains occupied, and it contains teacher (room, student_group) if
\* and only if such an assignment has the source's teacher_code (room,
\* student_group).
C14_OccupantsReported ==
    /\ (call.kind = "check" /\ SourceOfCall # None) =>
          LET src == SourceOfCall[1]
              all == call.req[1].current_assignments
              slots == call.resp[1].slots
          IN  \A i \in 1 .. (NumDays * NumPeriods) :
                  (<<slots[i].day, slots[i].period>> # <<src.day, src.period>>)
                  => OccupantsReported(slots[i].conflicts, all, src,
                                       slots[i].day, slots[i].period)
    /\ (/\ call.kind = "move"
        /\ SourceOfCall # None
        /\ <<call.req[1].target_day, call.req[1].target_period>>
              # <<call.req[1].source_day, call.req[1].source_period>>)
          => OccupantsReported(call.resp[1].conflicts,
                               call.req[1].current_assignments, SourceOfCall[1],
                               call.req[1].target_day, call.req[1].target_period)

\* a move to a slot with two occupants: the first shares nothing with the
\* source, the second has the source's teacher
C14_Witness ==
    /\ call.kind = "move"
    /\ SourceOfCall # None
    /\ LET req == call.req[1]
           all == req.current_assignments
           src == SourceOfCall[1]
           occupants == OccupantsAt(all, src, req.target_day, req.target_period)
       IN  /\ <<req.target_day, req.target_period>> # <<src.day, src.period>>
           /\ \E j, k \in occupants :
                 /\ j < k
                 /\ \A m \in occupants : j <= m
                 /\ all[j].teacher_code # src.teacher_code
                 /\ all[j].room # src.room
                 /\ all[j].student_group # src.student_group
                 /\ all[k].teacher_code = src.teacher_code
           /\ TypeSeq(call.resp[1].conflicts) = <<"occupied", "teacher">>

\* the conflicts check_slot_conflicts appends, in the order it appends them:
\* same_slot alone, or teacher_unavailable and then the scan's
Produced(src, td, tp, all, unavail) ==
    IF td = src.day /\ tp = src.period
    THEN <<SlotConflict("same_slot", <<"Cannot move to the same slot">>)>>
    ELSE UnavailableConflicts(src, td, tp, unavail)
         \o ScanAssignments(all, src, td, tp)

\* the positions of raw that hold the first conflict of their type
FirstOfType(raw) ==
    {i \in 1 .. Len(raw) :
        \A j \in 1 .. (i - 1) : raw[j].conflict_type # raw[i].conflict_type}

\* conflicts holds each conflict type once, and holds the first conflict of
\* raw of each type, in the order of raw
FirstSeenOrder(conflicts, raw) ==
    LET keep == FirstOfType(raw)
        Kth(k) == CHOOSE i \in keep : Cardinality({j \in keep : j < i}) = k - 1
    IN  /\ \A i, j \in 1 .. Len(conflicts) :
              i < j => conflicts[i].conflict_type # conflicts[j].conflict_type
        /\ Len(conflicts) = Cardinality(keep)
        /\ \A k \in 1 .. Len(conflicts) : conflicts[k] = raw[Kth(k)]

\* C15: every conflict list check_slot_conflicts returns holds each
\* conflict_type at most once, in the order in which the types were first
\* produced (teacher_unavailable before the scan's conflicts, the scan in
\* current_assignments order), and the conflict kept of each type is the
\* first one produced.
C15_FirstSeenConflicts ==
    /\ (call.kind = "check" /\ SourceOfCall # None) =>
          LET src == SourceOfCall[1]
              all == call.req[1].current_assignments
              unavail == Some(UnavailabilityMap(call.req[1].teacher_availability))
              slots == call.resp[1].slots
          IN  \A i \in 1 .. (NumDays * NumPeriods) :
                  FirstSeenOrder(slots[i].conflicts,
                      Produced(src, slots[i].day, slots[i].period, all, unavail))
    /\ (call.kind = "move" /\ SourceOfCall # None) =>
          FirstSeenOrder(call.resp[1].conflicts,
              Produced(SourceOfCall[1], call.req[1].target_day,
                       call.req[1].target_period,
                       call.req[1].current_assignments, None))

\* a check whose response has an entry with teacher_unavailable first and
\* one occupied conflict kept out of two with different messages
C15_Witness ==
    /\ call.kind = "check"
    /\ SourceOfCall # None
    /\ \E i \in 1 .. (NumDays * NumPeriods) :
          LET raw == Produced(SourceOfCall[1], GridDay(i), GridPeriod(i),
                         call.req[1].current_assignments,
                         Some(UnavailabilityMap(call.req[1].teacher_availability)))
              conflicts == call.resp[1].slots[i].conflicts
          IN  /\ Len(conflicts) >= 2
              /\ conflicts[1].conflict_type = "teacher_unavailable"
              /\ conflicts[2].conflict_type = "occupied"
              /\ \E j \in 1 .. Len(raw) :
                    /\ raw[j].conflict_type = "occupied"
                    /\ raw[j].message # conflicts[2].message

\* C16: every check_move response, whether the source assignment is found
\* or not, has exactly 30 slot entries, one per (day, period) with day in
\* 0..4 and period in 1..6, ordered by day and then by period.
C16_ThirtySlotsInOrder ==
    call.kind = "check" =>
        LET slots == call.resp[1].slots
        IN  /\ Len(slots) = 30
            /\ \A d \in 0 .. 4, p \in 1 .. 6 :
                  /\ slots[6 * d + p].day = d
                  /\ slots[6 * d + p].period = p
            /\ \A i \in 1 .. (Len(slots) - 1) :
                  \/ slots[i].day < slots[i + 1].day
                  \/ /\ slots[i].day = slots[i + 1].day
                     /\ slots[i].period < slots[i + 1].period

\* a check on a schedule that holds the lesson, but not at the source slot
C16_Witness ==
    /\ call.kind = "check"
    /\ SourceOfCall = None
    /\ \E k \in 1 .. Len(call.req[1].current_assignments) :
          call.req[1].current_assignments[k].lesson_id = call.req[1].lesson_id

\* the positions of the entries of current_assignments that match the
\* request's (lesson_id, source_day, source_period)
Matches(req) ==
    {k \in 1 .. Len(req.current_assignments) :
        /\ req.current_assignments[k].lesson_id = req.lesson_id
        /\ req.current_assignments[k].day = req.source_day
        /\ req.current_assignments[k].period = req.source_period}

\* C17: when no entry of current_assignments matches (lesson_id, source_day,
\* source_period), check_move returns 30 slot entries, all invalid, each
\* with exactly one conflict, of type error; move_lesson returns success =
\* false with exactly one conflict, of type error, and no updated_assignment.
C17_SourceMissing ==
    (call.kind # "none" /\ Matches(call.req[1]) = {}) =>
        /\ call.kind = "check" =>
              /\ Len(call.resp[1].slots) = 30
              /\ \A i \in 1 .. Len(call.resp[1].slots) :
                    /\ ~call.resp[1].slots[i].valid
                    /\ TypeSeq(call.resp[1].slots[i].conflicts) = <<"error">>
        /\ call.kind = "move" =>
              /\ ~call.resp[1].success
              /\ TypeSeq(call.resp[1].conflicts) = <<"error">>
              /\ call.resp[1].updated_assignment = None

\* a move of a lesson that the schedule holds, but not at the source slot,
\* to another slot
C17_Witness ==
    /\ call.kind = "move"
    /\ Matches(call.req[1]) = {}
    /\ LET req == call.req[1]
       IN  /\ \E k \in 1 .. Len(req.current_assignments) :
                 req.current_assignments[k].lesson_id = req.lesson_id
           /\ <<req.target_day, req.target_period>>
                 # <<req.source_day, req.source_period>>

\* the first entry of current_assignments that matches the request
FirstMatch(req) ==
    req.current_assignments[CHOOSE k \in Matches(req) :
                                \A j \in Matches(req) : k <= j]

\* C18: a successful move_lesson returns an updated_assignment equal to the
\* source assignment in lesson_id, teacher_code, teacher_name, room,
\* student_group and subject, at the target (day, period), and an empty
\* conflict list; a move_lesson that fails on conflicts returns no
\* updated_assignment, the full conflict list and a message built from the
\* first conflict of that list.
C18_MoveResponse ==
    (call.kind = "move" /\ Matches(call.req[1]) # {}) =>
        LET req == call.req[1]
            resp == call.resp[1]
            src == FirstMatch(req)
            raw == Produced(src, req.target_day, req.target_period,
                            req.current_assignments, None)
        IN  /\ resp.success <=> raw = <<>>
            /\ resp.success =>
                  /\ resp.updated_assignment # None
                  /\ LET updated == resp.updated_assignment[1]
                     IN  /\ updated.lesson_id = src.lesson_id
                         /\ updated.teacher_code = src.teacher_code
                         /\ updated.teacher_name = src.teacher_name
                         /\ updated.room = src.room
                         /\ updated.student_group = src.student_group
                         /\ updated.subject = src.subject
                         /\ updated.day = req.target_day
                         /\ updated.period = req.target_period
                  /\ resp.conflicts = <<>>
            /\ ~resp.success =>
                  /\ resp.updated_assignment = None
                  /\ FirstSeenOrder(resp.conflicts, raw)
                  /\ resp.message = <<"Cannot move lesson: ">> \o raw[1].message

\* a move that succeeds on a schedule of several entries
C18_Witness ==
    /\ call.kind = "move"
    /\ Matches(call.req[1]) # {}
    /\ call.resp[1].success
    /\ Len(call.req[1].current_assignments) >= 2
    /\ call.resp[1].updated_assignment[1] # FirstMatch(call.req[1])

\* the valuation of the instances that an assignment list was read from
ValuationOf(data, assignments) ==
    [n \in 1 .. Len(assignments) |->
        LET lesson == data.lessons[LessonVars(data)[n].lesson]
        IN  [day |-> assignments[n].time_slot.day,
             period |-> assignments[n].time_slot.period,
             room_idx |-> IndexOf(ValidRooms(data, lesson) \o <<assignments[n].room_id>>,
                                  assignments[n].room_id)]]

\* val is within the variables' domains and satisfies the posted constraints
Admitted(data, val) ==
    /\ \A n \in 1 .. Len(val) :
          /\ val[n].day \in Days
          /\ val[n].period \in Periods
          /\ LET lesson == data.lessons[LessonVars(data)[n].lesson]
             IN  /\ val[n].room_idx \in 0 .. (Len(ValidRooms(data, lesson)) - 1)
                 /\ AvailabilityConstraint(data, lesson, val[n])
    /\ TeacherConflictConstraints(data, val)
    /\ RoomConflictConstraints(data, val)
    /\ StudentGroupConstraints(data, val)
    /\ DoublePeriodConstraints(data, val)

\* C19: once the backend has answered, is_feasible is true, with the
\* assignments extracted from a valuation the model admits, if and only if
\* the status is OPTIMAL or FEASIBLE; for every other status is_feasible is
\* false, the assignment list is empty and the message holds the status name.
C19_StatusMapping ==
    (pc = "done" /\ invoked) =>
        /\ output[1].is_feasible <=> status \in {"OPTIMAL", "FEASIBLE"}
        /\ output[1].is_feasible =>
              /\ Len(output[1].assignments) = Len(LessonVars(problem))
              /\ LET val == ValuationOf(problem, output[1].assignments)
                 IN  /\ Admitted(problem, val)
                     /\ output[1].assignments = ExtractAssignments(problem, val)
        /\ ~output[1].is_feasible =>
              /\ output[1].assignments = <<>>
              /\ \E k \in 1 .. Len(output[1].message) :
                    output[1].message[k] = status

\* the backend stopped with status FEASIBLE on a problem of two lessons
C19_Witness ==
    /\ pc = "done"
    /\ invoked
    /\ status = "FEASIBLE"
    /\ output[1].is_feasible
    /\ Len(problem.lessons) = 2
    /\ Len(output[1].assignments) >= 2

\* the lesson's subject is a subject of the problem and no room of the
\* problem has a type that satisfies its requirement
Roomless(data, lesson) ==
    /\ lesson.subject_id \in SubjectIds(data)
    /\ LET required == SubjectById(data, lesson.subject_id).requires_room_type
       IN  \A r \in 1 .. Len(data.rooms) :
              required # NoType /\ data.rooms[r].room_type # required

\* the positions of the roomless lessons of the problem
RoomlessLessons(data) ==
    {i \in 1 .. Len(data.lessons) : Roomless(data, data.lessons[i])}

\* C20: when a lesson of the problem has no room whose type satisfies its
\* subject's requirement, whatever the other lessons are, solve posts no
\* constraint and does not invoke the backend, and it returns is_feasible =
\* false with an empty assignment list and a message naming a roomless
\* lesson (the first in lesson order).
C20_NoValidRoomShortCircuit ==
    RoomlessLessons(problem) # {} =>
        /\ ~built
        /\ ~invoked
        /\ pc # "solve_raised"
        /\ pc = "done" =>
              LET first == CHOOSE i \in RoomlessLessons(problem) :
                               \A j \in RoomlessLessons(problem) : i <= j
              IN  /\ ~output[1].is_feasible
                  /\ output[1].assignments = <<>>
                  /\ \E k \in 1 .. Len(output[1].message) :
                        output[1].message[k] = problem.lessons[first].id

(***************************************************************************)
(* Concurrent calls and the config of a call                               *)
(***************************************************************************)
\* the config object the caller of c supplied, if any
Supplied(c) ==
    IF calls[c].config # None /\ calls[c].config[1] \in CallerConfigs
    THEN InitialConfigs[calls[c].config[1]]
    ELSE None

\* the worker count and the weights the caller of c supplied: those of its
\* config, or the defaults without one
SuppliedWorkers(c) ==
    IF Supplied(c) = None THEN DefaultWorkers ELSE Supplied(c)[1].num_workers
SuppliedWeights(c) ==
    WeightsOf(IF Supplied(c) = None THEN DefaultConfig(DefaultMaxTime)
              ELSE Supplied(c)[1])

\* the search of call c has its parameters
Configured(c) == calls[c].pc \in {"configured", "returned"}

\* C21: under every interleaving of two concurrent solve calls, each call
\* runs its solver with the time limit, the worker count and the weights its
\* own caller supplied, also when both callers pass the same SolverConfig
\* object with different max_time_seconds arguments
C21_OwnSettings ==
    \A c \in Callers :
        Configured(c) =>
            /\ calls[c].limit = Some(calls[c].max_time_seconds)
            /\ calls[c].workers = Some(SuppliedWorkers(c))
            /\ calls[c].weights = Some(SuppliedWeights(c))

\* no other call that has entered works on the config object of call c
Unshared(c) ==
    \A d \in Callers \ {c} :
        calls[d].pc = "called" \/ calls[d].config # calls[c].config

C22_AnalyseDeterministic ==
    pc = "analysed" =>
        \A type_order \in Orders(CheckedRoomTypes(problem)) :
            report = Some(validate_timetable_input(problem, type_order))

(***************************************************************************)
(* Validity of a target slot                                               *)
(***************************************************************************)
\* the unavailability set a teacher_availability list supplies for a
\* teacher_code: that of the list's last entry for the code, none without
\* such an entry
SuppliedUnavailable(tas, code) ==
    LET entries == {k \in 1 .. Len(tas) : tas[k].teacher_code = code}
    IN  IF entries = {} THEN {}
        ELSE tas[CHOOSE k \in entries : \A j \in entries : j <= k].unavailable_slots

\* C23: in a check_move response with a found source, an entry is valid if
\* and only if its conflict list is empty, and that if and only if its slot
\* differs from the source slot, is not in the unavailability set supplied
\* for the source's teacher_code, and holds no assignment other than the
\* source, whatever that assignment's teacher, room or student group
C23_ValidIffFree ==
    (call.kind = "check" /\ SourceOfCall # None) =>
        LET src == SourceOfCall[1]
            all == call.req[1].current_assignments
            slots == call.resp[1].slots
            unavailable == SuppliedUnavailable(call.req[1].teacher_availability,
                                               src.teacher_code)
            taken == {<<all[k].day, all[k].period>> : k \in 1 .. Len(all)}
                        \ {<<src.day, src.period>>}
        IN  \A i \in 1 .. (NumDays * NumPeriods) :
                LET slot == <<slots[i].day, slots[i].period>>
                    free == /\ slot # <<src.day, src.period>>
                            /\ slot \notin unavailable
                            /\ slot \notin taken
                IN  /\ slots[i].valid <=> (slots[i].conflicts = <<>>)
                    /\ (slots[i].conflicts = <<>>) <=> free

\* a check whose response has a valid entry and an invalid entry for a slot
\* where the teacher is available and the only other assignment shares
\* neither teacher, room nor student group with the source
C23_Witness ==
    /\ call.kind = "check"
    /\ SourceOfCall # None
    /\ LET src == SourceOfCall[1]
           all == call.req[1].current_assignments
           slots == call.resp[1].slots
       IN  /\ \E i \in 1 .. (NumDays * NumPeriods) : slots[i].valid
           /\ \E i \in 1 .. (NumDays * NumPeriods) :
                /\ ~slots[i].valid
                /\ <<slots[i].day, slots[i].period>> # <<src.day, src.period>>
                /\ "teacher_unavailable" \notin Types(slots[i].conflicts)
                /\ \A k \in 1 .. Len(all) :
                      (all[k].day = slots[i].day /\ all[k].period = slots[i].period)
                      => /\ all[k].teacher_code # src.teacher_code
                         /\ all[k].room # src.room
                         /\ all[k].student_group # src.student_group

(***************************************************************************)
(* The analyser's teacher and room-type checks                             *)
(***************************************************************************)
\* the report holds an issue of the severity and category about a subject
Issued(severity, category, about) ==
    \E i \in 1 .. Len(report[1].issues) :
        report[1].issues[i] = ConstraintIssue(severity, category, about)

\* sum of periods_per_week over the lessons of the problem that satisfy a
\* condition, given as the set of their positions
RECURSIVE PeriodsOver(_)
PeriodsOver(positions) ==
    IF positions = {} THEN 0
    ELSE LET i == CHOOSE j \in positions : TRUE
         IN  problem.lessons[i].periods_per_week + PeriodsOver(positions \ {i})

\* workload and available slots of a teacher of the problem
Workload(teacher) ==
    PeriodsOver({i \in 1 .. Len(problem.lessons) :
                    problem.lessons[i].teacher_id = teacher.id})
Available(teacher) == TotalSlots - Cardinality(teacher.unavailable)

\* C24 as stated: for each teacher an ERROR whenever workload >
\* max_hours_per_week, an ERROR whenever workload > available, and a WARNING
\* whenever workload / available > 0.9
C24_TeacherIssuesAsStated ==
    pc = "analysed" =>
        \A n \in 1 .. Len(problem.teachers) :
            LET teacher == problem.teachers[n]
                workload == Workload(teacher)
                available == Available(teacher)
            IN  /\ workload > teacher.max_hours_per_week
                      => Issued("ERROR", "TEACHER OVERLOAD", teacher.id)
                /\ workload > available
                      => Issued("ERROR", "TEACHER AVAILABILITY", teacher.id)
                /\ (available > 0 /\ 10 * workload > 9 * available)
                      => Issued("WARNING", "TEACHER AVAILABILITY", teacher.id)

\* C24: for each teacher an ERROR (TEACHER OVERLOAD) exactly when workload >
\* max_hours_per_week, an ERROR (TEACHER AVAILABILITY) exactly when workload
\* > available, and a WARNING (TEACHER AVAILABILITY) exactly when workload
\* <= available and workload / available > 0.9
C24_TeacherIssues ==
    pc = "analysed" =>
        \A n \in 1 .. Len(problem.teachers) :
            LET teacher == problem.teachers[n]
                workload == Workload(teacher)
                available == Available(teacher)
            IN  /\ Issued("ERROR", "TEACHER OVERLOAD", teacher.id)
                      <=> workload > teacher.max_hours_per_week
                /\ Issued("ERROR", "TEACHER AVAILABILITY", teacher.id)
                      <=> workload > available
                /\ Issued("WARNING", "TEACHER AVAILABILITY", teacher.id)
                      <=> (workload <= available /\ 10 * workload > 9 * available)

\* a report with both errors for a teacher whose workload is above 90% of
\* the available slots, and with no warning for that teacher
C24_Witness ==
    /\ pc = "analysed"
    /\ \E n \in 1 .. Len(problem.teachers) :
          LET teacher == problem.teachers[n]
          IN  /\ Workload(teacher) > teacher.max_hours_per_week
              /\ Workload(teacher) > Available(teacher)
              /\ Available(teacher) > 0
              /\ Issued("ERROR", "TEACHER OVERLOAD", teacher.id)
              /\ Issued("ERROR", "TEACHER AVAILABILITY", teacher.id)
              /\ ~Issued("WARNING", "TEACHER AVAILABILITY", teacher.id)

\* demand for and supply of a room type in the problem
Demand(room_type) ==
    PeriodsOver({i \in 1 .. Len(problem.lessons) :
        \E j \in 1 .. Len(problem.subjects) :
            /\ problem.subjects[j].id = problem.lessons[i].subject_id
            /\ problem.subjects[j].requires_room_type = room_type})
Supply(room_type) ==
    TotalSlots * Cardinality({i \in 1 .. Len(problem.rooms) :
                                problem.rooms[i].room_type = room_type})

\* the room types of the model
RoomTypes == UsedRoomTypes \cup {"art_room"}

\* C25 as stated: for each room type a SPECIALIZED ROOMS ERROR whenever
\* demand > 0 and supply = 0 or demand > supply, a WARNING whenever demand /
\* supply > 0.9, and no issue for a type with demand = 0
C25_RoomTypeIssuesAsStated ==
    pc = "analysed" =>
        \A t \in RoomTypes :
            /\ ((Demand(t) > 0 /\ Supply(t) = 0) \/ Demand(t) > Supply(t))
                  => Issued("ERROR", "SPECIALIZED ROOMS", t)
            /\ (Supply(t) > 0 /\ 10 * Demand(t) > 9 * Supply(t))
                  => Issued("WARNING", "SPECIALIZED ROOMS", t)
            /\ Demand(t) = 0
                  => /\ ~Issued("ERROR", "SPECIALIZED ROOMS", t)
                     /\ ~Issued("WARNING", "SPECIALIZED ROOMS", t)

\* C25: for each room type a SPECIALIZED ROOMS ERROR exactly when demand > 0
\* and supply = 0 or demand > supply, a WARNING exactly when demand <= supply
\* and demand / supply > 0.9, and no issue for a type with demand = 0
C25_RoomTypeIssues ==
    pc = "analysed" =>
        \A t \in RoomTypes :
            /\ Issued("ERROR", "SPECIALIZED ROOMS", t)
                  <=> ((Demand(t) > 0 /\ Supply(t) = 0) \/ Demand(t) > Supply(t))
            /\ Issued("WARNING", "SPECIALIZED ROOMS", t)
                  <=> (/\ Demand(t) > 0
                       /\ Demand(t) <= Supply(t)
                       /\ 10 * Demand(t) > 9 * Supply(t))

\* a report with an error for a type whose demand exceeds a supply that is
\* not zero, and with no warning for that type
C25_Witness ==
    /\ pc = "analysed"
    /\ Supply("science_lab") > 0
    /\ Demand("science_lab") > Supply("science_lab")
    /\ Issued("ERROR", "SPECIALIZED ROOMS", "science_lab")
    /\ ~Issued("WARNING", "SPECIALIZED ROOMS", "science_lab")

(***************************************************************************)
(* Sequences of moves                                                      *)
(***************************************************************************)
\* no two assignments of a schedule share a slot and a teacher_code, a room
\* or a student_group
NoDoubleBooking(all) ==
    \A i, j \in 1 .. Len(all) :
        (i < j /\ all[i].day = all[j].day /\ all[i].period = all[j].period)
        => /\ all[i].teacher_code # all[j].teacher_code
           /\ all[i].room # all[j].room
           /\ all[i].student_group # all[j].student_group

\* an assignment and its successor are of the same lesson, teacher, room,
\* student group and subject
SameLesson(a, b) ==
    /\ a.lesson_id = b.lesson_id
    /\ a.teacher_code = b.teacher_code
    /\ a.teacher_name = b.teacher_name
    /\ a.room = b.room
    /\ a.student_group = b.student_group
    /\ a.subject = b.subject

\* C28: every step of a sequence of move_lesson calls, in which the
\* updated_assignment of a successful call replaces its source and a failed
\* call changes nothing, takes a schedule without double booking of a
\* teacher_code, room or student_group to one without, keeps the number of
\* assignments, and keeps every assignment's lesson_id, teacher, room,
\* student group and subject; so does every sequence of such steps
C28_MovesKeepSchedule ==
    [][/\ NoDoubleBooking(schedule) => NoDoubleBooking(schedule')
       /\ Len(schedule') = Len(schedule)
       /\ \A k \in 1 .. Len(schedule) : SameLesson(schedule[k], schedule'[k])]_vars

\* a successful move on a schedule without double booking, in which two
\* assignments share a slot, is about to be applied
C28_Witness ==
    /\ call.kind = "move"
    /\ call.resp[1].success
    /\ NoDoubleBooking(schedule)
    /\ \E i, j \in 1 .. Len(schedule) :
          /\ i < j
          /\ schedule[i].day = schedule[j].day
          /\ schedule[i].period = schedule[j].period

(***************************************************************************)
(* The objective                                                           *)
(***************************************************************************)
\* the penalty a feasible output reports in its message
ReportedPenalty ==
    CHOOSE n \in 0 .. 1000 : ToString(n) = output[1].message[4]

\* the teacher of an assignment's lesson
TeacherOfAssignment(a) == LessonById(problem, a.lesson_id).teacher_id

\* the gaps of a list of assignments: a teacher, a day and a period from 2
\* to 5 in which the teacher has no assignment but has one earlier and one
\* later on that day
GapsIn(assignments) ==
    LET Teaches(t, d, p) ==
            \E n \in 1 .. Len(assignments) :
                /\ TeacherOfAssignment(assignments[n]) = t
                /\ assignments[n].time_slot.day = d
                /\ assignments[n].time_slot.period = p
    IN  {g \in TeacherKeys(problem) \X Days \X (2 .. 5) :
            /\ ~Teaches(g[1], g[2], g[3])
            /\ \E q \in Periods : q < g[3] /\ Teaches(g[1], g[2], q)
            /\ \E q \in Periods : q > g[3] /\ Teaches(g[1], g[2], q)}

\* only the teacher-gap weight of the call's config is positive
GapsOnly ==
    /\ config[1].weight_teacher_gaps > 0
    /\ config[1].weight_room_consistency = 0
    /\ config[1].weight_subject_spread = 0
    /\ config[1].weight_daily_balance = 0

\* C26: with only the teacher-gap weight positive, the penalty of a feasible
\* output is that weight times the number of gaps of its assignments, and
\* an OPTIMAL output has no gap when some valuation of the hard constraints
\* has none
C26_GapObjective ==
    (pc = "done" /\ invoked /\ output[1].is_feasible /\ GapsOnly) =>
        LET gaps == GapsIn(output[1].assignments)
        IN  /\ ReportedPenalty = config[1].weight_teacher_gaps * Cardinality(gaps)
            /\ (status = "OPTIMAL" /\ gaps # {}) =>
                  ~\E val \in Solutions(problem) :
                      GapsIn(ExtractAssignments(problem, val)) = {}

\* a feasible output with assignments on Monday in periods 1 and 3 only: its
\* penalty is the gap weight, once
C26_Witness ==
    /\ pc = "done"
    /\ invoked
    /\ output[1].is_feasible
    /\ GapsOnly
    /\ {<<output[1].assignments[n].time_slot.day,
          output[1].assignments[n].time_slot.period>> :
            n \in 1 .. Len(output[1].assignments)} = {<<0, 1>>, <<0, 3>>}
    /\ output[1].message[4] = ToString(config[1].weight_teacher_gaps)

\* C27: the soft constraints never change feasibility: every valuation that
\* satisfies the hard constraints is admitted by the model with the soft
\* constraints of the call's config, the values of day_count, diff,
\* deviation, excess and of the penalties lying in their variables' domains
C27_SoftKeepsFeasibility ==
    pc = "built" =>
        \A val \in Solutions(problem) : SoftAdmits(problem, val, config[1])

\* the model is built with a positive balance weight for a teacher of five
\* periods or more, and a valuation of the hard constraints places four of
\* them on one day
C27_Witness ==
    /\ pc = "built"
    /\ config[1].weight_daily_balance > 0
    /\ TotalPeriods(problem, "T1") >= BalanceMinPeriods
    /\ \E val \in Solutions(problem) :
          /\ DayCount(problem, val, "T1", 0) = 4
          /\ Excess(problem, val, "T1", 0) = 2

\* the double pairs of the problem: for every lesson that requires double
\* periods, its periods_per_week divided by two
DoublePairCount ==
    SumSeq([i \in 1 .. Len(problem.lessons) |->
              IF problem.lessons[i].requires_double_period
              THEN problem.lessons[i].periods_per_week \div 2 ELSE 0])

\* C29 as stated: with a positive subject-spread weight, the penalty of
\* every feasible output for a problem with a lesson that requires double
\* periods is at least that weight for every double pair, and is not 0
C29_NeverZeroAsStated ==
    (/\ pc = "done"
     /\ invoked
     /\ output[1].is_feasible
     /\ config[1].weight_subject_spread > 0
     /\ \E i \in 1 .. Len(problem.lessons) :
           problem.lessons[i].requires_double_period) =>
        /\ ReportedPenalty >= config[1].weight_subject_spread * DoublePairCount
        /\ output[1].message[4] # "0"

\* C29, for the problems with a double pair: with a positive subject-spread
\* weight, the penalty of every feasible output is at least that weight for
\* every double pair of the problem, and is not 0 when the problem has one
C29_DoublePeriodsCharged ==
    (/\ pc = "done"
     /\ invoked
     /\ output[1].is_feasible
     /\ config[1].weight_subject_spread > 0) =>
        /\ ReportedPenalty >= config[1].weight_subject_spread * DoublePairCount
        /\ DoublePairCount > 0 => output[1].message[4] # "0"

\* an OPTIMAL output for a lesson of four periods in double periods, under
\* a config whose only positive weight is that of the subject spread
C29_Witness ==
    /\ pc = "done"
    /\ invoked
    /\ status = "OPTIMAL"
    /\ config[1].weight_subject_spread > 0
    /\ config[1].weight_teacher_gaps = 0
    /\ DoublePairCount = 2
    /\ ReportedPenalty >= 2 * config[1].weight_subject_spread

====
